---- MODULE Spec2Model ----
(***************************************************************************)
(* Frame synchronization and swapchain lifecycle of watertender.           *)
(*                                                                         *)
(*   SpecSync  : shortcuts/synchronization.rs (Synchronization) together   *)
(*               with the GPU side of its fences and the caller's queue    *)
(*               submission (starter_kit.rs).                              *)
(*   SpecWinit : winit_backend.rs (Swapchain and the begin_loop tick).     *)
(*   SpecFb    : framebuffer_mgr.rs (FramebufferManager::resize).          *)
(***************************************************************************)
EXTENDS Integers, Sequences, FiniteSets, TLC

\* ----------------------------------------------------------------- bounds
\* frames_in_flight ranges over 1..MaxFrames
MaxFrames == 3
\* swapchain image indices are 0..NumImages-1
NumImages == 2
\* the desktop loop creates at most MaxSwapchains swapchains
MaxSwapchains == 3
\* a swapchain has 1..MaxSwapImages images
MaxSwapImages == 2
\* FramebufferManager::resize is called at most MaxResizes times
MaxResizes == 2
\* resize is given 1..MaxFbImages swapchain images
MaxFbImages == 2
\* images of the OpenXR swapchain
MaxXrImages == 2
\* cap of the runtime-side counters of the VR loop
MaxXrCount == 2

\* defaults.rs: pub const FRAMES_IN_FLIGHT: usize = 2
FRAMES_IN_FLIGHT == 2

\* ------------------------------------------------------------------ state
VARIABLES
    \* Synchronization
    frames_in_flight,   \* the N given to Synchronization::new
    khr_sync,           \* the khr_sync flag given to Synchronization::new
    in_flight_fences,   \* Vec<vk::Fence>, slot s is element s+1
    swapchain_sync,     \* Vec<(vk::Semaphore, vk::Semaphore)>
    swapchain_img_lut,  \* HashMap<u32, vk::Fence>, NoFence where absent
    alive,              \* FALSE once the Synchronization has been dropped
    \* the device's view of each fence
    fenceState,         \* "signaled" | "unsignaled" | "pending" (submitted)
    pendingImg,         \* image the pending submission of a fence renders into
    \* the sync call in progress
    pc,                 \* "idle" | "wait_img" | "wait_slot" | "reset" |
                        \* "returned" (Ok, fence with the caller) | "failed" (Err)
                        \* | "recording" (the StarterKit has handed out the
                        \* CommandBufferStart with that fence)
    cur,                \* arguments and trace of the current / last sync call
    result,             \* outcome of the last sync call
    hist,               \* "fresh", then "first" after a first call sync(0,0),
                        \* "second" after a second call sync(0,1), else "other"
    lastRet,            \* per image, the fence the latest Ok(fence) for it carried
    \* winit_backend.rs: Swapchain and the platform behind it
    inner,              \* Swapchain::inner, the current SwapchainKHR handle
    nextHandle,         \* the handle the next created swapchain gets
    destroyed,          \* swapchain handles given to destroy_swapchain_khr
    swapImages,         \* per created swapchain, how many images it has
    outOfDate,          \* the surface no longer matches the swapchain `inner`
    \* winit_backend.rs: begin_loop
    loopPc,             \* "start" | "events" | "redraw" | "resize" |
                        \* "app_frame" | "present" | "exited"
    appImages,          \* swapchain whose images app.swapchain_resize got last
    lastFrame,          \* what the Swapchain::frame call of this tick did
    lastPresent,        \* what the last Swapchain::queue_present call did
    winitEvent,         \* the event the closure was last called with, and
                        \* whether app.event was called with it
    inFlight,           \* swapchains whose images frames submitted by
                        \* app.frame and not yet finished by the GPU render to
    \* framebuffer_mgr.rs: FramebufferManager and the device objects it makes
    internals,          \* Option<Internals>
    vr,                 \* FramebufferManager::vr
    live,               \* device objects created and not destroyed:
                        \* <<kind, handle, image viewed (views only)>>
    resizeCount,        \* number of resize calls made so far
    fbPc,               \* "ready" | "unwinding" (frame or extent panicked) |
                        \* "panicked" | "dropped"
    lastResize,         \* what the last resize call did
    lastQuery,          \* the frame() or extent() call made since, if any
    misdestroyed,       \* objects given to a destroy call while not live
    dropOps,            \* the operations Drop for FramebufferManager made
    \* openxr_backend.rs: launch and Swapchain, and the runtime behind them
    running,            \* the AtomicBool the Ctrl-C handler clears
    session_running,    \* launch's local session_running
    swapchain,          \* Swapchain::swapchain, Option<xr::Swapchain>
    current_extent,     \* Swapchain::current_extent
    should_render,      \* xr_frame_state.should_render of the current tick
    xrPc,               \* "top" | "events" | "wait" | "frame" | "resize" |
                        \* "app_frame" | "present" | "exited"
    xrRet,              \* what launch returned: "none" | "Ok" | "Err" | "panic"
    xrFrameRet,         \* what Swapchain::frame returned in this tick
    bracketsOpen,       \* frame brackets begun and not ended (runtime side)
    waitsPending,       \* frame waits not yet followed by a begin
    imagesHeld,         \* swapchain images acquired and not released
    tickCalls,          \* the calls of the current (at "top": the last) tick
    lastEvent,          \* the event poll_event handed out last in this tick,
                        \* and whether app.event was called with it
    xrAppImages,        \* the (images, extent) app.swapchain_resize got last
    \* starter_kit.rs: StarterKit
    frame,              \* StarterKit::frame, the in-flight slot index
    kitLast,            \* the StarterKit method that returned last, what it
                        \* returned and, for a submission, what it carried
    \* a desktop tick of an application built on the StarterKit
    tick,               \* where the RedrawRequested arm is, the semaphore
                        \* pair winit_sync gave it and the index acquired
    \* synchronization.rs: calls of Synchronization::swapchain_sync
    syncQuery,          \* the last swapchain_sync(frame) call and its return
    \* memory.rs, frame_data_ubo.rs: FrameDataUbo<T>
    min_align,          \* limits.min_uniform_buffer_offset_alignment
    elem_size,          \* size_of::<T>()
    padded_size,        \* FrameDataUbo::padded_size
    ubo_frames,         \* the `frames` argument of FrameDataUbo::new
    uboPc,
    lastUpload          \* the last write_bytes of upload: frame, offset, len

syncVars == <<frames_in_flight, khr_sync, in_flight_fences, swapchain_sync,
              swapchain_img_lut, alive, fenceState, pendingImg, pc, cur,
              result, hist, lastRet>>

winitVars == <<inner, nextHandle, destroyed, swapImages, outOfDate, loopPc,
               appImages, lastFrame, lastPresent, winitEvent, inFlight>>

fbVars == <<internals, vr, live, resizeCount, fbPc, lastResize, lastQuery,
            misdestroyed, dropOps>>

xrVars == <<running, session_running, swapchain, current_extent,
            should_render, xrPc, xrRet, xrFrameRet, bracketsOpen,
            waitsPending, imagesHeld, tickCalls, lastEvent, xrAppImages>>

kitVars == <<frame, kitLast>>

deskVars == <<tick>>

queryVars == <<syncQuery>>

uboVars == <<min_align, elem_size, padded_size, ubo_frames, uboPc, lastUpload>>

vars == <<syncVars, winitVars, fbVars, xrVars, kitVars, deskVars, queryVars,
          uboVars>>

\* what a specification of one component leaves alone
nonSync == <<winitVars, fbVars, xrVars, kitVars, deskVars, queryVars, uboVars>>
nonWinit == <<syncVars, fbVars, xrVars, kitVars, deskVars, queryVars, uboVars>>
nonFb == <<syncVars, winitVars, xrVars, kitVars, deskVars, queryVars, uboVars>>
nonXr == <<syncVars, winitVars, fbVars, kitVars, deskVars, queryVars, uboVars>>
nonKit == <<winitVars, fbVars, xrVars, deskVars, queryVars, uboVars>>
nonDesk == <<winitVars, fbVars, xrVars, queryVars, uboVars>>
nonQuery == <<winitVars, fbVars, xrVars, kitVars, deskVars, uboVars>>
nonUbo == <<syncVars, winitVars, fbVars, xrVars, kitVars, deskVars, queryVars>>

\* ---------------------------------------------------------------- helpers
NoFence == 0
NoImage == -1
Images == 0 .. (NumImages - 1)
FenceIds == 1 .. MaxFrames
None == <<>>
Some(x) == <<x>>

\* Synchronization::new, the fence half: one fence per slot
NewFences(n) == [i \in 1..n |-> i]

\* variant: the semaphore pairs are created whatever khr_sync says
NewSwapchainSync_IgnoresFlag(n, khr) == [i \in 1..n |-> <<2 * i - 1, 2 * i>>]

\* Synchronization::new, the semaphore half: one pair per slot iff khr_sync
NewSwapchainSync(n, khr) ==
    IF khr THEN [i \in 1..n |-> <<2 * i - 1, 2 * i>>] ELSE <<>>

\* variant: fences created without the SIGNALED flag
NewFenceState_Unsignaled == [f \in FenceIds |-> "unsignaled"]

\* fences are created with FenceCreateFlags::SIGNALED
NewFenceState == [f \in FenceIds |-> "signaled"]

\* in_flight_fences[frame]
SlotFence(slot) == in_flight_fences[slot + 1]

\* swapchain_img_lut.get(&swapchain_image_index)
LutGet(img) == swapchain_img_lut[img]

\* wait_for_fences(&[fence], false, u64::MAX) returns success
WaitReturns(f) == fenceState[f] = "signaled"

\* reset_fences(&[fence])
ResetFences(f) == [fenceState EXCEPT ![f] = "unsignaled"]

\* variant: the fence is recorded under the slot instead of the image index
LutInsert_SlotKey(img, f) == [swapchain_img_lut EXCEPT ![(f - 1) % NumImages] = f]

\* variant: the insert replaces the table by the one new entry
LutInsert_ClearOthers(img, f) ==
    [i \in Images |-> IF i = img THEN f ELSE NoFence]

\* swapchain_img_lut.insert(swapchain_image_index, fence)
LutInsert(img, f) == [swapchain_img_lut EXCEPT ![img] = f]

\* Synchronization::swapchain_sync(frame): Vec::get(frame).copied()
SwapchainSyncGet(slot) ==
    IF slot + 1 <= Len(swapchain_sync) THEN Some(swapchain_sync[slot + 1])
    ELSE None

\* cur between calls; during a call: its arguments, the fences it has
\* waited on and reset, and what it found on entry (the table, the set of
\* unsignaled fences, whether the image's recorded fence was pending with a
\* frame for another image)
NoCall == [img |-> NoImage, slot |-> 0, waited |-> <<>>, resets |-> {},
           lut0 |-> [i \in Images |-> NoFence], unsig0 |-> {},
           reused |-> FALSE]

NoFrame == [log |-> <<>>, ret |-> "none", err |-> "none", idx |-> NoImage,
            resize |-> None]
NoPresent == [result |-> "none", ret |-> "none", idx |-> NoImage]
NoWinitEvent == [ev |-> "none", forwarded |-> FALSE]

\* the winit variables while the desktop loop is not part of the specification
WinitIdle ==
    /\ inner = 0 /\ nextHandle = 1 /\ destroyed = {}
    /\ swapImages = <<>> /\ outOfDate = FALSE
    /\ loopPc = "off" /\ appImages = 0
    /\ lastFrame = NoFrame /\ lastPresent = NoPresent
    /\ winitEvent = NoWinitEvent /\ inFlight = {}

ObjectKinds == {"image", "memory", "view", "framebuffer"}
\* how many device objects of each kind a set holds
KindCount(objs) ==
    [k \in ObjectKinds |-> Cardinality({x \in objs : x[1] = k})]

\* lastResize before any call; okExtent is the extent given to the most
\* recent call that returned Ok, same says that the call before this one
\* returned Ok and had the same arguments, before counts the device objects
\* live when the call started, allOk says that every call so far returned Ok
NoResize == [ops |-> <<>>, ret |-> "none", n |-> 0, extent |-> <<0, 0>>,
             old |-> {}, okExtent |-> <<0, 0>>, same |-> FALSE,
             before |-> KindCount({}), allOk |-> TRUE]

NoQuery == [op |-> "none", idx |-> 0, ret |-> <<"none">>]

\* the FramebufferManager variables while it is not part of the specification
FbIdle ==
    /\ internals = None /\ vr = FALSE /\ live = {} /\ resizeCount = 0
    /\ fbPc = "off" /\ lastResize = NoResize /\ lastQuery = NoQuery
    /\ misdestroyed = {} /\ dropOps = <<>>

\* xrFrameRet before Swapchain::frame has returned in a tick
NoXrFrame == [ret |-> "none", idx |-> None, resize |-> None]

\* session_call: the session call the match arm made for the event, or the
\* request_exit made at the top of the tick and the runtime's answer
NoEvent == [ev |-> "none", forwarded |-> FALSE, session_call |-> "none"]

\* the OpenXR variables while the VR loop is not part of the specification
XrIdle ==
    /\ running = TRUE /\ session_running = FALSE
    /\ swapchain = None /\ current_extent = <<0, 0>>
    /\ should_render = FALSE /\ xrPc = "off" /\ xrRet = "none"
    /\ xrFrameRet = NoXrFrame
    /\ bracketsOpen = 0 /\ waitsPending = 0 /\ imagesHeld = 0
    /\ tickCalls = <<>> /\ lastEvent = NoEvent /\ xrAppImages = None

\* a queue_submit: its fence and its wait and signal semaphores
NoSubmit == [fence |-> NoFence, wait |-> <<>>, signal |-> <<>>]
NoKitCall == [op |-> "none", ret |-> "none", submit |-> NoSubmit]

\* StarterKit::new: `frame: 0`
KitIdle == frame = 0 /\ kitLast = NoKitCall

NoSemaphore == 0

\* tick between two RedrawRequested events
NoTick == [pc |-> "off", slot |-> 0, image_available |-> NoSemaphore,
           render_finished |-> NoSemaphore, idx |-> NoImage,
           presented |-> NoSemaphore]

DeskIdle == tick = NoTick

\* no swapchain_sync call yet
NoSyncQuery == [called |-> FALSE, slot |-> 0, ret |-> None]
QueryIdle == syncQuery = NoSyncQuery

\* no upload yet
NoUpload == [frame |-> 0, offset |-> 0, len |-> 0]
\* no FrameDataUbo in the specification
UboIdle ==
    /\ min_align = 0 /\ elem_size = 0 /\ padded_size = 0 /\ ubo_frames = 0
    /\ uboPc = "off" /\ lastUpload = NoUpload

\* the Synchronization variables while it is not part of the specification
SyncIdle ==
    /\ frames_in_flight = 0 /\ khr_sync = FALSE
    /\ in_flight_fences = <<>> /\ swapchain_sync = <<>>
    /\ swapchain_img_lut = [i \in Images |-> NoFence]
    /\ alive = FALSE
    /\ fenceState = NewFenceState
    /\ pendingImg = [f \in FenceIds |-> NoImage]
    /\ pc = "off" /\ cur = NoCall /\ result = "none" /\ hist = "fresh"
    /\ lastRet = [i \in Images |-> NoFence]

\* ------------------------------------------------------------------- Init
InitSync ==
    /\ frames_in_flight \in 1..MaxFrames
    /\ khr_sync \in BOOLEAN
    /\ in_flight_fences = NewFences(frames_in_flight)
    /\ swapchain_sync = NewSwapchainSync(frames_in_flight, khr_sync)
    /\ swapchain_img_lut = [i \in Images |-> NoFence]
    /\ alive = TRUE
    /\ fenceState = NewFenceState
    /\ pendingImg = [f \in FenceIds |-> NoImage]
    /\ pc = "idle"
    /\ cur = NoCall
    /\ result = "none"
    /\ hist = "fresh"
    /\ lastRet = [i \in Images |-> NoFence]
    /\ WinitIdle
    /\ FbIdle
    /\ XrIdle
    /\ KitIdle
    /\ DeskIdle
    /\ QueryIdle
    /\ UboIdle

\* ------------------------------------------------- Synchronization::sync
\* entry: sync(swapchain_image_index, frame)
SyncCall(img, slot) ==
    /\ alive /\ pc \in {"idle", "failed"}
    /\ pc' = "wait_img"
    /\ cur' = [img |-> img, slot |-> slot, waited |-> <<>>, resets |-> {},
               lut0 |-> swapchain_img_lut,
               unsig0 |-> {f \in FenceIds : fenceState[f] = "unsignaled"},
               reused |-> /\ LutGet(img) # NoFence
                          /\ pendingImg[LutGet(img)] \notin {NoImage, img}]
    /\ result' = "none"
    /\ hist' = IF hist = "fresh" /\ img = 0 /\ slot = 0 THEN "first"
               ELSE IF hist = "first" /\ img = 0 /\ slot = 1 THEN "second"
               ELSE "other"
    /\ lastRet' = lastRet
    /\ UNCHANGED <<nonSync, frames_in_flight, khr_sync, in_flight_fences,
                   swapchain_sync, swapchain_img_lut, alive, fenceState,
                   pendingImg>>

\* variant: the wait on the image's recorded fence is left out
SyncWaitImage_NoWait ==
    /\ pc = "wait_img"
    /\ cur' = cur
    /\ pc' = "wait_slot"
    /\ UNCHANGED <<nonSync, frames_in_flight, khr_sync, in_flight_fences,
                   swapchain_sync, swapchain_img_lut, alive, fenceState,
                   pendingImg, result, hist, lastRet>>

\* "Ensure this swapchain image is not already in use by the GPU"
SyncWaitImage ==
    /\ pc = "wait_img"
    /\ IF LutGet(cur.img) # NoFence
       THEN /\ WaitReturns(LutGet(cur.img))
            /\ cur' = [cur EXCEPT !.waited = Append(@, LutGet(cur.img))]
       ELSE cur' = cur
    /\ pc' = "wait_slot"
    /\ UNCHANGED <<nonSync, frames_in_flight, khr_sync, in_flight_fences,
                   swapchain_sync, swapchain_img_lut, alive, fenceState,
                   pendingImg, result, hist, lastRet>>

\* the image wait fails: `.result()?` returns the error
SyncWaitImageErr ==
    /\ pc = "wait_img"
    /\ LutGet(cur.img) # NoFence
    /\ pc' = "failed"
    /\ result' = "err_wait_img"
    /\ UNCHANGED <<nonSync, frames_in_flight, khr_sync, in_flight_fences,
                   swapchain_sync, swapchain_img_lut, alive, fenceState,
                   pendingImg, cur, hist, lastRet>>

\* variant: the slot's fence is reset without its wait having succeeded
SyncWaitSlot_NoWait ==
    /\ pc = "wait_slot"
    /\ cur' = cur
    /\ pc' = "reset"
    /\ UNCHANGED <<nonSync, frames_in_flight, khr_sync, in_flight_fences,
                   swapchain_sync, swapchain_img_lut, alive, fenceState,
                   pendingImg, result, hist, lastRet>>

\* "Ensure this frame is not already in use by the GPU"
SyncWaitSlot ==
    /\ pc = "wait_slot"
    /\ WaitReturns(SlotFence(cur.slot))
    /\ cur' = [cur EXCEPT !.waited = Append(@, SlotFence(cur.slot))]
    /\ pc' = "reset"
    /\ UNCHANGED <<nonSync, frames_in_flight, khr_sync, in_flight_fences,
                   swapchain_sync, swapchain_img_lut, alive, fenceState,
                   pendingImg, result, hist, lastRet>>

SyncWaitSlotErr ==
    /\ pc = "wait_slot"
    /\ pc' = "failed"
    /\ result' = "err_wait_slot"
    /\ UNCHANGED <<nonSync, frames_in_flight, khr_sync, in_flight_fences,
                   swapchain_sync, swapchain_img_lut, alive, fenceState,
                   pendingImg, cur, hist, lastRet>>

\* reset_fences, then the table insert and Ok(fence)
SyncReset ==
    /\ pc = "reset"
    /\ fenceState' = ResetFences(SlotFence(cur.slot))
    /\ swapchain_img_lut' = LutInsert(cur.img, SlotFence(cur.slot))
    /\ cur' = [cur EXCEPT !.resets = @ \cup {SlotFence(cur.slot)}]
    /\ pc' = "returned"
    /\ result' = "ok"
    /\ lastRet' = [lastRet EXCEPT ![cur.img] = SlotFence(cur.slot)]
    /\ UNCHANGED <<nonSync, frames_in_flight, khr_sync, in_flight_fences,
                   swapchain_sync, alive, pendingImg, hist>>

\* variant: the table insert is done before the reset is known to succeed
SyncResetErr_InsertFirst ==
    /\ pc = "reset"
    /\ swapchain_img_lut' = LutInsert(cur.img, SlotFence(cur.slot))
    /\ pc' = "failed"
    /\ result' = "err_reset"
    /\ UNCHANGED <<nonSync, frames_in_flight, khr_sync, in_flight_fences,
                   swapchain_sync, alive, fenceState,
                   pendingImg, cur, hist, lastRet>>

\* reset_fences fails: `.result()?` returns the error before the insert
SyncResetErr ==
    /\ pc = "reset"
    /\ pc' = "failed"
    /\ result' = "err_reset"
    /\ UNCHANGED <<nonSync, frames_in_flight, khr_sync, in_flight_fences,
                   swapchain_sync, swapchain_img_lut, alive, fenceState,
                   pendingImg, cur, hist, lastRet>>

\* ------------------------------------------------ the caller and the GPU
\* end_command_buffer: queue_submit(.., Some(cmd.fence)) for the frame that
\* renders into the image given to sync
QueueSubmit ==
    /\ pc = "returned"
    /\ fenceState' = [fenceState EXCEPT ![SlotFence(cur.slot)] = "pending"]
    /\ pendingImg' = [pendingImg EXCEPT ![SlotFence(cur.slot)] = cur.img]
    /\ pc' = "idle"
    /\ cur' = NoCall
    /\ result' = "none"
    /\ UNCHANGED <<nonSync, frames_in_flight, khr_sync, in_flight_fences,
                   swapchain_sync, swapchain_img_lut, alive, hist, lastRet>>

\* end_command_buffer: queue_submit fails, nothing is submitted
QueueSubmitErr ==
    /\ pc = "returned"
    /\ pc' = "idle"
    /\ cur' = NoCall
    /\ result' = "none"
    /\ UNCHANGED <<nonSync, frames_in_flight, khr_sync, in_flight_fences,
                   swapchain_sync, swapchain_img_lut, alive, fenceState,
                   pendingImg, hist, lastRet>>

\* the device finishes a submission and signals its fence
GpuComplete(f) ==
    /\ fenceState[f] = "pending"
    /\ fenceState' = [fenceState EXCEPT ![f] = "signaled"]
    /\ pendingImg' = [pendingImg EXCEPT ![f] = NoImage]
    /\ UNCHANGED <<nonSync, frames_in_flight, khr_sync, in_flight_fences,
                   swapchain_sync, swapchain_img_lut, alive, pc, cur, result,
                   hist, lastRet>>

\* Drop for Synchronization: drains both vectors
SyncDrop ==
    /\ alive /\ pc \in {"idle", "returned", "failed"}
    /\ alive' = FALSE
    /\ swapchain_sync' = <<>>
    /\ in_flight_fences' = <<>>
    /\ pc' = "idle"
    /\ cur' = NoCall
    /\ result' = "none"
    /\ UNCHANGED <<nonSync, frames_in_flight, khr_sync, swapchain_img_lut, fenceState,
                   pendingImg, hist, lastRet>>

NextSync ==
    \/ \E img \in Images, slot \in 0..(frames_in_flight - 1) : SyncCall(img, slot)
    \/ SyncWaitImage
    \/ SyncWaitImageErr
    \/ SyncWaitSlot
    \/ SyncWaitSlotErr
    \/ SyncReset
    \/ SyncResetErr
    \/ QueueSubmit
    \/ QueueSubmitErr
    \/ \E f \in FenceIds : GpuComplete(f)
    \/ SyncDrop

SpecSync == InitSync /\ [][NextSync]_vars

\* ------------------------------------------------------- claims, SpecSync
Range(seq) == {seq[i] : i \in 1..Len(seq)}

\* fences that are not signaled and own img: the fence of a pending
\* submission into img, or the fence just returned for img
UnsignaledOwners(img) ==
    {f \in FenceIds :
        /\ fenceState[f] # "signaled"
        /\ \/ pendingImg[f] = img
           \/ pc = "returned" /\ cur.img = img /\ f = SlotFence(cur.slot)}

\* C1: for every N and every sequence of sync calls, an image never has two
\* distinct unsignaled fences as owner, and the table entry of each image is
\* the fence returned by the latest successful sync for that image.
C1_OneOwnerPerImage ==
    \A img \in Images :
        /\ Cardinality(UnsignaledOwners(img)) <= 1
        /\ swapchain_img_lut[img] = lastRet[img]
        /\ swapchain_img_lut[img] \in FenceIds \cup {NoFence}

C1_Witness ==
    /\ frames_in_flight = 2
    /\ swapchain_img_lut[0] = 2
    /\ fenceState[1] = "pending" /\ fenceState[2] = "pending"
    /\ pendingImg[1] # pendingImg[2]
    /\ pc = "wait_img" /\ cur.img = pendingImg[1]

\* C2: when sync returns, no submission that rendered into image_index is
\* still pending on the GPU.
C2_ImageIdleAtReturn ==
    pc = "returned" =>
        \A f \in FenceIds : ~(fenceState[f] = "pending" /\ pendingImg[f] = cur.img)

\* sync has returned for an image whose recorded fence, another slot's, was
\* on entry pending again with a frame for a different image
C2_Witness ==
    /\ pc = "returned"
    /\ cur.lut0[cur.img] \notin {NoFence, SlotFence(cur.slot)}
    /\ cur.reused

\* C3: a fence goes to the unsignaled state only in sync's reset step, only
\* the calling slot's fence, and only after that call's wait on it succeeded;
\* sync returns that fence unsignaled, with none of its earlier work pending.
C3_ResetStep ==
    \A f \in FenceIds :
        (fenceState[f] # "unsignaled" /\ fenceState'[f] = "unsignaled") =>
            /\ pc = "reset" /\ pc' = "returned"
            /\ f = SlotFence(cur.slot)
            /\ f \in Range(cur.waited)
            /\ fenceState[f] = "signaled"
            /\ \A g \in FenceIds \ {f} : fenceState'[g] = fenceState[g]

C3_ReturnedFence ==
    pc = "returned" =>
        /\ fenceState[SlotFence(cur.slot)] = "unsignaled"
        /\ pendingImg[SlotFence(cur.slot)] = NoImage
        /\ cur.resets = {SlotFence(cur.slot)}

C3_ResetAfterWait == [](C3_ReturnedFence) /\ [][C3_ResetStep]_vars

\* the slot's fence had carried a submission before this call
C3_Witness ==
    /\ pc = "returned"
    /\ \E img \in Images : cur.lut0[img] = SlotFence(cur.slot)

\* the scenario of C4: N = 2, no presentation semaphores, first call
\* sync(0, 0), second call sync(0, 1)
ScenarioA_First ==
    /\ alive /\ frames_in_flight = 2 /\ ~khr_sync
    /\ hist = "first"
    /\ pc \in {"wait_img", "wait_slot", "reset", "returned"}

ScenarioA_Second ==
    /\ alive /\ frames_in_flight = 2 /\ ~khr_sync
    /\ hist = "second"
    /\ cur.lut0[0] = SlotFence(0)
    /\ pc \in {"wait_img", "wait_slot", "reset", "returned"}

\* C4 as stated: the first call never blocks, and the second call waits on
\* and is held by no fence other than slot 1's own.
C4_SecondBlocksOnlyOnOwn ==
    /\ ScenarioA_First =>
          /\ pc = "wait_img" => LutGet(0) = NoFence
          /\ pc = "wait_slot" => WaitReturns(SlotFence(0))
    /\ ScenarioA_Second =>
          /\ Range(cur.waited) \subseteq {SlotFence(1)}
          /\ pc = "wait_img" =>
                (LutGet(0) = NoFence \/ WaitReturns(LutGet(0)))

\* C4 (amended): the first call never blocks (no table entry, own fence
\* signaled); the second call first waits on slot 0's fence, the recorded
\* owner of image 0, and is never held by slot 1's own fence.
C4_SecondWaitsOnImageOwner ==
    /\ ScenarioA_First =>
          /\ pc = "wait_img" => LutGet(0) = NoFence
          /\ pc = "wait_slot" => WaitReturns(SlotFence(0))
          /\ pc \in {"reset", "returned"} => cur.waited = <<SlotFence(0)>>
    /\ ScenarioA_Second =>
          /\ pc = "wait_img" => LutGet(0) = SlotFence(0)
          /\ pc = "wait_slot" =>
                cur.waited = <<SlotFence(0)>> /\ WaitReturns(SlotFence(1))
          /\ pc \in {"reset", "returned"} =>
                cur.waited = <<SlotFence(0), SlotFence(1)>>

C4_Witness == ScenarioA_Second /\ pc = "returned"

SyncErrors == {"err_wait_img", "err_wait_slot", "err_reset"}

\* C5: when a wait or the reset fails, sync is back at its caller with the
\* error after a single attempt, the table is as it was on entry, and after
\* a failed wait no fence has been reset.
C5_ErrorLeavesBookkeeping ==
    result \in SyncErrors =>
        /\ pc = "failed"
        /\ swapchain_img_lut = cur.lut0
        /\ result = "err_wait_img" => cur.waited = <<>>
        /\ result = "err_wait_slot" => Len(cur.waited) <= 1
        /\ result \in {"err_wait_img", "err_wait_slot"} =>
              /\ cur.resets = {}
              /\ \A f \in FenceIds :
                    fenceState[f] = "unsignaled" => f \in cur.unsig0

C5_Witness ==
    /\ result = "err_reset"
    /\ cur.lut0[cur.img] # SlotFence(cur.slot)
    /\ cur.lut0[cur.img] # NoFence

\* C6: swapchain_sync(slot) is None for every slot without khr_sync; with it
\* there are exactly N pairs, one per slot, and no step of a live object
\* changes them.
C6_PairsState ==
    alive =>
        /\ Len(swapchain_sync) = (IF khr_sync THEN frames_in_flight ELSE 0)
        /\ \A slot \in 0..MaxFrames :
              (SwapchainSyncGet(slot) = None) <=>
                  (~khr_sync \/ slot >= frames_in_flight)
        /\ \A s, t \in 1..Len(swapchain_sync) :
              s # t => {swapchain_sync[s][1], swapchain_sync[s][2]}
                        \cap {swapchain_sync[t][1], swapchain_sync[t][2]} = {}

C6_PairsStep == alive' => swapchain_sync' = swapchain_sync

C6_PairsFixed == [](C6_PairsState) /\ [][C6_PairsStep]_vars

C6_Witness ==
    /\ alive /\ khr_sync /\ frames_in_flight = 2
    /\ pc = "returned" /\ hist = "other"
    /\ SwapchainSyncGet(1) = Some(<<3, 4>>)

\* ====================================================== winit_backend.rs
SUCCESS == "SUCCESS"
OUT_OF_DATE == "ERROR_OUT_OF_DATE_KHR"
DEVICE_LOST == "ERROR_DEVICE_LOST"

\* what acquire_next_image_khr / queue_present_khr answer for swapchain
\* `inner`: a device error, else out-of-date once the surface has changed
PlatformResult(deviceError, stale) ==
    IF deviceError THEN DEVICE_LOST
    ELSE IF stale THEN OUT_OF_DATE
    ELSE SUCCESS

\* (Vec<vk::Image>, vk::Extent2D) of a swapchain
SwapchainImages(sc, n) == [sc |-> sc, n |-> n]

\* Swapchain::create_swapchain(.., old_swapchain): cr is where it fails, if
\* at all; "images" fails after create_swapchain_khr made the new handle
CreateResults == {"ok", "caps", "create", "images"}

CreateSwapchain(cr, n) ==
    [ok     |-> cr = "ok",
     handle |-> nextHandle,
     next   |-> IF cr \in {"ok", "images"} THEN nextHandle + 1 ELSE nextHandle,
     images |-> IF cr \in {"ok", "images"}
                THEN swapImages @@ (nextHandle :> n) ELSE swapImages,
     resize |-> SwapchainImages(nextHandle, n),
     log    |-> <<<<"create", nextHandle, cr>>>>]

\* variant: the old swapchain is freed before the new one is created
RebuildSwapchain_FreeFirst(cr, n) ==
    LET c == CreateSwapchain(cr, n) IN
    [ok |-> c.ok, inner |-> IF c.ok THEN c.handle ELSE inner,
     next |-> c.next, images |-> c.images,
     destroyed |-> destroyed \cup {inner}, resize |-> c.resize,
     log |-> <<<<"destroy", inner, "ok">>>> \o c.log]

\* Swapchain::rebuild_swapchain: create with old_swapchain = inner, then
\* free_swapchain (destroys the old inner), then inner = swapchain
RebuildSwapchain(cr, n) ==
    LET c == CreateSwapchain(cr, n) IN
    IF c.ok
    THEN [ok |-> TRUE, inner |-> c.handle, next |-> c.next,
          images |-> c.images, destroyed |-> destroyed \cup {inner},
          resize |-> c.resize,
          log |-> c.log \o <<<<"destroy", inner, "ok">>>>]
    ELSE [ok |-> FALSE, inner |-> inner, next |-> c.next,
          images |-> c.images, destroyed |-> destroyed,
          resize |-> c.resize, log |-> c.log]

\* Swapchain::frame, the else branch: `Ok((ret.result()?, None))`
FrameDirect(r1, idx) ==
    [ret |-> IF r1 = SUCCESS THEN "Ok" ELSE "Err",
     err |-> IF r1 = SUCCESS THEN "none" ELSE r1,
     idx |-> IF r1 = SUCCESS THEN idx ELSE NoImage,
     resize |-> None, inner |-> inner, next |-> nextHandle,
     images |-> swapImages, destroyed |-> destroyed,
     log |-> <<<<"acquire", inner, r1>>>>]

\* variant: the rebuilt image set is not handed back with the index
FrameRebuild_NoReport(r1, cr, n, r2, idx) ==
    LET rb == RebuildSwapchain(cr, n) IN
    [ret |-> IF rb.ok /\ r2 = SUCCESS THEN "Ok" ELSE "Err",
     err |-> IF ~rb.ok THEN cr ELSE IF r2 = SUCCESS THEN "none" ELSE r2,
     idx |-> IF rb.ok /\ r2 = SUCCESS THEN idx ELSE NoImage,
     resize |-> None,
     inner |-> rb.inner, next |-> rb.next, images |-> rb.images,
     destroyed |-> rb.destroyed,
     log |-> <<<<"acquire", inner, r1>>>> \o rb.log
             \o (IF rb.ok THEN <<<<"acquire", rb.inner, r2>>>> ELSE <<>>)]

\* Swapchain::frame, the out-of-date branch: `rebuild_swapchain()?`, then
\* `acquire_image(..).result()?`, then `Ok((img_idx, Some(resize)))`
FrameRebuild(r1, cr, n, r2, idx) ==
    LET rb == RebuildSwapchain(cr, n) IN
    [ret |-> IF rb.ok /\ r2 = SUCCESS THEN "Ok" ELSE "Err",
     err |-> IF ~rb.ok THEN cr ELSE IF r2 = SUCCESS THEN "none" ELSE r2,
     idx |-> IF rb.ok /\ r2 = SUCCESS THEN idx ELSE NoImage,
     resize |-> IF rb.ok /\ r2 = SUCCESS THEN Some(rb.resize) ELSE None,
     inner |-> rb.inner, next |-> rb.next, images |-> rb.images,
     destroyed |-> rb.destroyed,
     log |-> <<<<"acquire", inner, r1>>>> \o rb.log
             \o (IF rb.ok THEN <<<<"acquire", rb.inner, r2>>>> ELSE <<>>)]

\* variant: every failed acquire, not only out-of-date, triggers the rebuild
SwapchainFrame_RebuildOnAnyError(r1, cr, n, r2, idx) ==
    IF r1 # SUCCESS THEN FrameRebuild(r1, cr, n, r2, idx)
    ELSE FrameDirect(r1, idx)

\* Swapchain::frame: r1 and r2 are the platform's answers to the first and
\* the retried acquire, idx the image index a successful acquire yields
SwapchainFrame(r1, cr, n, r2, idx) ==
    IF r1 = OUT_OF_DATE THEN FrameRebuild(r1, cr, n, r2, idx)
    ELSE FrameDirect(r1, idx)

\* variant: the present result is propagated with `.result()?`
PresentReturn_Propagates(pr) == IF pr = SUCCESS THEN "Ok" ELSE "Err"

\* Swapchain::queue_present: `let _ = queue_present_khr(..); Ok(())`
PresentReturn(pr) == "Ok"

\* begin_loop after Swapchain::new: one swapchain, nothing given to the app
InitWinit ==
    /\ inner = 1 /\ nextHandle = 2 /\ destroyed = {}
    /\ swapImages \in [{1} -> 1..MaxSwapImages]
    /\ outOfDate = FALSE
    /\ loopPc = "start" /\ appImages = 0
    /\ lastFrame = NoFrame /\ lastPresent = NoPresent
    /\ winitEvent = NoWinitEvent /\ inFlight = {}
    /\ SyncIdle
    /\ FbIdle
    /\ XrIdle
    /\ KitIdle
    /\ DeskIdle
    /\ QueryIdle
    /\ UboIdle

\* variant: the event loop is entered without the initial swapchain_resize
LoopInitialResize_Skipped(ok) ==
    /\ loopPc = "start"
    /\ loopPc' = IF ok THEN "events" ELSE "exited"
    /\ UNCHANGED <<nonWinit, inner, nextHandle, destroyed, swapImages,
                   outOfDate, appImages, lastFrame, lastPresent,
                   winitEvent, inFlight>>

\* begin_loop: res(app.swapchain_resize(images, extent)) before the loop
LoopInitialResize(ok) ==
    /\ loopPc = "start"
    /\ IF ok THEN appImages' = inner /\ loopPc' = "events"
             ELSE appImages' = appImages /\ loopPc' = "exited"
    /\ UNCHANGED <<nonWinit, inner, nextHandle, destroyed, swapImages,
                   outOfDate, lastFrame, lastPresent,
                   winitEvent, inFlight>>

\* the window is resized: the surface no longer matches the swapchain
SurfaceChange ==
    /\ loopPc \in {"events", "redraw", "resize", "app_frame", "present"}
    /\ ~outOfDate
    /\ outOfDate' = TRUE
    /\ UNCHANGED <<nonWinit, inner, nextHandle, destroyed, swapImages,
                   loopPc, appImages, lastFrame, lastPresent,
                   winitEvent, inFlight>>

\* the events the closure of event_loop.run is called with
WinitEvents == {"MainEventsCleared", "RedrawRequested", "Other"}

\* the closure is entered with an event: res(app.event(..)) first, then
\* the match on the event
LoopEvent(ev, ok) ==
    /\ loopPc = "events"
    /\ winitEvent' = [ev |-> ev, forwarded |-> TRUE]
    /\ loopPc' = IF ~ok THEN "exited"
                 ELSE IF ev = "RedrawRequested" THEN "redraw"
                 ELSE "events"
    /\ UNCHANGED <<nonWinit, inner, nextHandle, destroyed, swapImages,
                   outOfDate, appImages, lastFrame, lastPresent, inFlight>>

\* RedrawRequested: app.winit_sync(), then res(swapchain.frame(..)).
\* e1, e2: a device error hits the first / the retried acquire; again: the
\* surface changes once more between the rebuild and the retry
LoopFrame(e1, cr, n, again, e2, idx) ==
    /\ loopPc = "redraw"
    /\ e1 \/ ~outOfDate \/ nextHandle <= MaxSwapchains
    /\ LET r1 == PlatformResult(e1, outOfDate)
           r2 == PlatformResult(e2, again)
           f  == SwapchainFrame(r1, cr, n, r2, idx)
       IN  /\ idx < (IF r1 = SUCCESS THEN swapImages[inner] ELSE n)
           /\ inner' = f.inner
           /\ nextHandle' = f.next
           /\ swapImages' = f.images
           /\ destroyed' = f.destroyed
           /\ outOfDate' = IF f.inner # inner THEN again ELSE outOfDate
           /\ lastFrame' = [log |-> f.log, ret |-> f.ret, err |-> f.err,
                            idx |-> f.idx, resize |-> f.resize]
           /\ loopPc' = IF f.ret = "Err" THEN "exited"
                        ELSE IF f.resize # None THEN "resize"
                        ELSE "app_frame"
    /\ UNCHANGED <<nonWinit, appImages, lastPresent, winitEvent, inFlight>>

\* `if let Some((images, extent)) = resize { res(app.swapchain_resize(..)) }`
LoopResize(ok) ==
    /\ loopPc = "resize"
    /\ IF ok THEN appImages' = lastFrame.resize[1].sc /\ loopPc' = "app_frame"
             ELSE appImages' = appImages /\ loopPc' = "exited"
    /\ inFlight' = IF ok THEN {} ELSE inFlight
    /\ UNCHANGED <<nonWinit, inner, nextHandle, destroyed, swapImages,
                   outOfDate, lastFrame, lastPresent,
                   winitEvent>>

\* variant: the closure returns after app.frame without presenting
LoopAppFrame_NoPresent(ok) ==
    /\ loopPc = "app_frame"
    /\ loopPc' = IF ok THEN "events" ELSE "exited"
    /\ inFlight' = IF ok THEN inFlight \cup {inner} ELSE inFlight
    /\ UNCHANGED <<nonWinit, inner, nextHandle, destroyed, swapImages,
                   outOfDate, appImages, lastFrame, lastPresent,
                   winitEvent>>

\* res(app.frame(frame, ..))
LoopAppFrame(ok) ==
    /\ loopPc = "app_frame"
    /\ loopPc' = IF ok THEN "present" ELSE "exited"
    /\ inFlight' = IF ok THEN inFlight \cup {inner} ELSE inFlight
    /\ UNCHANGED <<nonWinit, inner, nextHandle, destroyed, swapImages,
                   outOfDate, appImages, lastFrame, lastPresent,
                   winitEvent>>

\* res(swapchain.queue_present(swapchain_index, render_finished))
LoopPresent(e) ==
    /\ loopPc = "present"
    /\ LET pr == PlatformResult(e, outOfDate) IN
       /\ lastPresent' = [result |-> pr, ret |-> PresentReturn(pr),
                          idx |-> lastFrame.idx]
       /\ loopPc' = IF PresentReturn(pr) = "Ok" THEN "events" ELSE "exited"
    /\ lastFrame' = NoFrame
    /\ UNCHANGED <<nonWinit, inner, nextHandle, destroyed, swapImages,
                   outOfDate, appImages, winitEvent, inFlight>>

\* the GPU finishes the frames submitted so far
WinitGpuComplete ==
    /\ loopPc \notin {"off", "exited"} /\ inFlight # {}
    /\ inFlight' = {}
    /\ UNCHANGED <<nonWinit, inner, nextHandle, destroyed, swapImages,
                   outOfDate, loopPc, appImages, lastFrame, lastPresent,
                   winitEvent>>

NextWinit ==
    \/ \E ok \in BOOLEAN : LoopInitialResize(ok)
    \/ SurfaceChange
    \/ WinitGpuComplete
    \/ \E ev \in WinitEvents, ok \in BOOLEAN : LoopEvent(ev, ok)
    \/ \E e1, again, e2 \in BOOLEAN, cr \in CreateResults,
          n \in 1..MaxSwapImages, idx \in 0..(MaxSwapImages - 1) :
            LoopFrame(e1, cr, n, again, e2, idx)
    \/ \E ok \in BOOLEAN : LoopResize(ok)
    \/ \E ok \in BOOLEAN : LoopAppFrame(ok)
    \/ \E e \in BOOLEAN : LoopPresent(e)

SpecWinit == InitWinit /\ [][NextWinit]_vars

\* ------------------------------------------------------ claims, SpecWinit
FrameOps(kind) == SelectSeq(lastFrame.log, LAMBDA o : o[1] = kind)

\* the frame call of this tick replaced the swapchain
FrameRebuilt == \E i \in 1..Len(lastFrame.log) :
                    lastFrame.log[i][1] = "create" /\ lastFrame.log[i][3] = "ok"

\* C7: one frame call issues at most two acquires and at most one rebuild;
\* an out-of-date first acquire is followed by the rebuild and, once that
\* succeeded, by exactly one retry whose failure is returned; any other
\* failure of the first acquire is returned without a rebuild.
C7_RetryOnce ==
    lastFrame.log # <<>> =>
        LET log == lastFrame.log
            acq == FrameOps("acquire")
            cre == FrameOps("create")
        IN  /\ Len(acq) \in 1..2 /\ Len(cre) <= 1
            /\ log[1][1] = "acquire"
            /\ log[1][3] = OUT_OF_DATE =>
                  /\ Len(log) >= 2 /\ log[2][1] = "create"
                  /\ log[2][3] = "ok" =>
                        /\ Len(acq) = 2 /\ log[Len(log)] = acq[2]
                        /\ acq[2][3] = SUCCESS => lastFrame.ret = "Ok"
                        /\ acq[2][3] # SUCCESS =>
                              /\ lastFrame.ret = "Err"
                              /\ lastFrame.err = acq[2][3]
                  /\ log[2][3] # "ok" =>
                        Len(acq) = 1 /\ lastFrame.ret = "Err"
            /\ log[1][3] = DEVICE_LOST =>
                  /\ Len(log) = 1
                  /\ lastFrame.ret = "Err" /\ lastFrame.err = DEVICE_LOST
            /\ log[1][3] = SUCCESS => Len(log) = 1 /\ lastFrame.ret = "Ok"

\* the retry after a rebuild reported out-of-date again: frame gave up
C7_Witness ==
    /\ Len(FrameOps("acquire")) = 2
    /\ FrameOps("acquire")[2][3] = OUT_OF_DATE
    /\ lastFrame.ret = "Err" /\ lastFrame.err = OUT_OF_DATE

\* C8 as stated: a frame call hands its caller a Some((images, extent))
\* exactly when it has replaced the swapchain.
C8_EveryRebuildReported ==
    lastFrame.log # <<>> => (FrameRebuilt <=> lastFrame.resize # None)

\* C8 (amended): a frame call that returns Ok hands back Some of the new
\* image set exactly when it replaced the swapchain, its retry was acquired
\* from the new swapchain, and whenever the loop is between ticks, in the
\* frame callback or presenting, the application's image set is the
\* controller's; a replacement that is not reported ends the loop.
C8_RebuildReportedOrFatal ==
    /\ lastFrame.ret = "Ok" =>
          /\ FrameRebuilt <=> lastFrame.resize # None
          /\ lastFrame.resize # None =>
                /\ lastFrame.resize = Some(SwapchainImages(inner, swapImages[inner]))
                /\ lastFrame.log[Len(lastFrame.log)] = <<"acquire", inner, SUCCESS>>
                /\ inner \notin destroyed
    /\ loopPc \in {"events", "redraw", "app_frame", "present"} =>
          appImages = inner
    /\ (FrameRebuilt /\ lastFrame.resize = None) =>
          lastFrame.ret = "Err" /\ loopPc = "exited"

C8_Witness ==
    /\ loopPc = "app_frame"
    /\ FrameRebuilt
    /\ appImages = inner /\ inner = 3

\* C9: whatever the platform answers to the present, queue_present returns
\* Ok and the loop goes on with the same swapchain; the swapchain is only
\* replaced by a frame call whose first acquire reported out-of-date, and a
\* frame call on an out-of-date swapchain gets that answer and rebuilds.
C9_Step ==
    /\ (loopPc = "present" /\ loopPc' # "present") =>
          /\ loopPc' = "events"
          /\ lastPresent'.ret = "Ok"
          /\ inner' = inner /\ destroyed' = destroyed
          /\ nextHandle' = nextHandle /\ outOfDate' = outOfDate
    /\ (inner' # inner \/ destroyed' # destroyed) =>
          /\ loopPc = "redraw"
          /\ lastFrame'.log[1] = <<"acquire", inner, OUT_OF_DATE>>
    /\ (loopPc = "redraw" /\ lastFrame'.log # <<>> /\ outOfDate) =>
          \/ lastFrame'.log[1] = <<"acquire", inner, DEVICE_LOST>>
          \/ /\ lastFrame'.log[1] = <<"acquire", inner, OUT_OF_DATE>>
             /\ lastFrame'.log[2][1] = "create"

C9_PresentAdvisory == [][C9_Step]_vars

\* a present was answered out-of-date and the next frame call rebuilt
C9_Witness ==
    /\ lastPresent.result = OUT_OF_DATE /\ lastPresent.ret = "Ok"
    /\ loopPc = "resize"
    /\ FrameRebuilt

\* ===================================================== framebuffer_mgr.rs
\* an operation on the device: <<name, handle, image viewed or 0, layer
\* count in the create info or 0>>
Op(name, h, img) == <<name, h, img, 0>>
\* a create call whose create info carries a layer count
OpL(name, h, img, layers) == <<name, h, img, layers>>

Extents == {<<800, 600>>, <<1024, 768>>}

\* variant: the two layer counts swapped
Layers_Swapped == IF vr THEN 1 ELSE 2

\* `let layers = if self.vr { 2 } else { 1 }`
Layers == IF vr THEN 2 ELSE 1

\* handles of the objects the k-th resize call creates
Base(k) == k * (4 + 2 * MaxFbImages)
DepthImage(k) == Base(k) + 1
DepthView(k) == Base(k) + 2
ColorImage(k) == Base(k) + 3
ColorView(k) == Base(k) + 4
SwapView(k, i) == Base(k) + 3 + 2 * i
Framebuffer(k, i) == Base(k) + 4 + 2 * i
\* the i-th swapchain image handed to resize (owned by the swapchain)
SwapImage(i) == 0 - i

\* where a call fails, if at all: <<step, index of the swapchain image>>
NoFail == <<"none", 0>>
FailPoints(n) ==
    {<<k, 0>> : k \in {"none", "queue_wait_idle", "device_wait_idle",
                       "depth_create", "depth_alloc", "depth_bind",
                       "depth_view",
                       "color_create", "color_alloc", "color_bind",
                       "color_view"}}
    \cup {<<k, i>> : k \in {"swap_view", "framebuffer"}, i \in 1..n}

\* variant: the image is destroyed and its memory kept
DropImage_KeepMemory(h) == <<Op("destroy_image", h, 0)>>

\* Drop for ManagedImage: destroy_image, then deallocate
DropImage(h) == <<Op("destroy_image", h, 0), Op("deallocate", h, 0)>>

\* ManagedImage::new: create_image, allocate, bind_image_memory; a failed
\* allocation or bind returns without destroying the image (and freeing the
\* memory) just created
NewImage(h, which, fail) ==
    IF fail[1] = which \o "_create" THEN [ok |-> FALSE, ops |-> <<>>]
    ELSE IF fail[1] = which \o "_alloc"
    THEN [ok |-> FALSE, ops |-> <<OpL("create_image", h, 0, Layers)>>]
    ELSE IF fail[1] = which \o "_bind"
    THEN [ok |-> FALSE,
          ops |-> <<OpL("create_image", h, 0, Layers), Op("allocate", h, 0)>>]
    ELSE [ok |-> TRUE,
          ops |-> <<OpL("create_image", h, 0, Layers), Op("allocate", h, 0)>>]

RECURSIVE FreeFrames(_)
\* Internals::free, `for frame in self.frames.drain(..)`
FreeFrames(frames) ==
    IF frames = <<>> THEN <<>>
    ELSE <<Op("destroy_framebuffer", Head(frames).framebuffer, 0),
           Op("destroy_image_view", Head(frames).swapchain_image_view, 0)>>
         \o FreeFrames(Tail(frames))

\* variant: no wait for the device before the destroy calls
InternalsFree_NoWait(int, idleOk) ==
    FreeFrames(int.frames)
    \o <<Op("destroy_image_view", int.color_image_view, 0),
         Op("destroy_image_view", int.depth_image_view, 0)>>
    \o DropImage(int.depth_image) \o DropImage(int.color_image)

\* variant: the frames are drained without destroying what they hold
InternalsFree_LeakFrames(int, idleOk) ==
    (IF idleOk
     THEN <<Op("device_wait_idle", 0, 0),
            Op("destroy_image_view", int.color_image_view, 0),
            Op("destroy_image_view", int.depth_image_view, 0)>>
     ELSE <<Op("device_wait_idle_failed", 0, 0)>>)
    \o DropImage(int.depth_image) \o DropImage(int.color_image)

\* Internals::free: device_wait_idle().unwrap(), the frames, the color view,
\* the depth view; `self` is dropped on the way out (also when the unwrap
\* panics), which drops _depth_image and then _color_image
InternalsFree(int, idleOk) ==
    (IF idleOk
     THEN <<Op("device_wait_idle", 0, 0)>>
          \o FreeFrames(int.frames)
          \o <<Op("destroy_image_view", int.color_image_view, 0),
               Op("destroy_image_view", int.depth_image_view, 0)>>
     ELSE <<Op("device_wait_idle_failed", 0, 0)>>)
    \o DropImage(int.depth_image) \o DropImage(int.color_image)

RECURSIVE BuildFrames(_, _, _, _)
\* `swapchain_images.iter().map(..).collect::<Result<Vec<_>>>()`: frames
\* i..n, stopping at the first failure
BuildFrames(k, i, n, fail) ==
    IF i > n THEN [ok |-> TRUE, ops |-> <<>>, frames |-> <<>>]
    ELSE IF fail = <<"swap_view", i>>
    THEN [ok |-> FALSE, ops |-> <<>>, frames |-> <<>>]
    ELSE IF fail = <<"framebuffer", i>>
    THEN [ok |-> FALSE,
          ops |-> <<OpL("create_image_view", SwapView(k, i), SwapImage(i),
                        Layers)>>,
          frames |-> <<>>]
    ELSE LET rest == BuildFrames(k, i + 1, n, fail) IN
         [ok |-> rest.ok,
          ops |-> <<OpL("create_image_view", SwapView(k, i), SwapImage(i),
                        Layers),
                    OpL("create_framebuffer", Framebuffer(k, i), 0, 1)>>
                  \o rest.ops,
          frames |-> <<[framebuffer |-> Framebuffer(k, i),
                        swapchain_image_view |-> SwapView(k, i)]>>
                     \o rest.frames]

\* FramebufferManager::resize from "Create depth image" on: ret, the
\* Internals built and the operations made; on an early return the images
\* already held in locals are dropped, the later local first
ResizeCreate(k, n, extent, fail) ==
    LET d  == NewImage(DepthImage(k), "depth", fail)
        c  == NewImage(ColorImage(k), "color", fail)
        dv == <<OpL("create_image_view", DepthView(k), DepthImage(k),
                   Layers)>>
        cv == <<OpL("create_image_view", ColorView(k), ColorImage(k),
                   Layers)>>
        fr == BuildFrames(k, 1, n, fail)
        Err(ops) == [ret |-> "Err", internals |-> None, ops |-> ops]
    IN  IF ~d.ok THEN Err(d.ops)
        ELSE IF fail[1] = "depth_view"
        THEN Err(d.ops \o DropImage(DepthImage(k)))
        ELSE IF ~c.ok
        THEN Err(d.ops \o dv \o c.ops \o DropImage(DepthImage(k)))
        ELSE IF fail[1] = "color_view"
        THEN Err(d.ops \o dv \o c.ops
                 \o DropImage(ColorImage(k)) \o DropImage(DepthImage(k)))
        ELSE IF ~fr.ok
        THEN Err(d.ops \o dv \o c.ops \o cv \o fr.ops
                 \o DropImage(ColorImage(k)) \o DropImage(DepthImage(k)))
        ELSE [ret |-> "Ok",
              internals |-> Some([extent |-> extent,
                                  depth_image |-> DepthImage(k),
                                  depth_image_view |-> DepthView(k),
                                  color_image |-> ColorImage(k),
                                  color_image_view |-> ColorView(k),
                                  frames |-> fr.frames]),
              ops |-> d.ops \o dv \o c.ops \o cv \o fr.ops]

\* variant: the new attachments and framebuffers are built first and the
\* previous Internals freed when they are replaced
FbResize_FreeLast(k, n, extent, fail) ==
    LET cr == ResizeCreate(k, n, extent, fail) IN
    IF fail[1] = "queue_wait_idle"
    THEN [ret |-> "Err", internals |-> internals,
          ops |-> <<Op("queue_wait_idle_failed", 0, 0)>>]
    ELSE [ret |-> cr.ret, internals |-> cr.internals,
          ops |-> <<Op("queue_wait_idle", 0, 0)>> \o cr.ops
                  \o (IF internals # None
                      THEN InternalsFree(internals[1], TRUE) ELSE <<>>)]

\* variant: the previous Internals are freed and replaced only when the new
\* ones have been built
FbResize_KeepOnError(k, n, extent, fail) ==
    LET cr == ResizeCreate(k, n, extent, fail) IN
    IF fail[1] = "queue_wait_idle"
    THEN [ret |-> "Err", internals |-> internals,
          ops |-> <<Op("queue_wait_idle_failed", 0, 0)>>]
    ELSE IF cr.ret # "Ok"
    THEN [ret |-> cr.ret, internals |-> internals,
          ops |-> <<Op("queue_wait_idle", 0, 0)>> \o cr.ops]
    ELSE [ret |-> cr.ret, internals |-> cr.internals,
          ops |-> <<Op("queue_wait_idle", 0, 0)>> \o cr.ops
                  \o (IF internals # None
                      THEN InternalsFree(internals[1], TRUE) ELSE <<>>)]

\* FramebufferManager::resize(swapchain_images, extent, render_pass), the
\* k-th call, with n swapchain images
FbResize(k, n, extent, fail) ==
    IF fail[1] = "queue_wait_idle"
    THEN [ret |-> "Err", internals |-> internals,
          ops |-> <<Op("queue_wait_idle_failed", 0, 0)>>]
    ELSE IF internals # None /\ fail[1] = "device_wait_idle"
    THEN [ret |-> "panic", internals |-> None,
          ops |-> <<Op("queue_wait_idle", 0, 0)>>
                  \o InternalsFree(internals[1], FALSE)]
    ELSE LET cr == ResizeCreate(k, n, extent, fail) IN
         [ret |-> cr.ret, internals |-> cr.internals,
          ops |-> <<Op("queue_wait_idle", 0, 0)>>
                  \o (IF internals # None
                      THEN InternalsFree(internals[1], TRUE) ELSE <<>>)
                  \o cr.ops]

CreateKind == [create_image |-> "image", allocate |-> "memory",
               create_image_view |-> "view",
               create_framebuffer |-> "framebuffer"]
DestroyKind == [destroy_image |-> "image", deallocate |-> "memory",
                destroy_image_view |-> "view",
                destroy_framebuffer |-> "framebuffer"]

RECURSIVE ApplyOps(_, _)
\* the device objects left after a sequence of operations
ApplyOps(objs, ops) ==
    IF ops = <<>> THEN objs
    ELSE LET o == Head(ops) IN
         ApplyOps(
            IF o[1] \in DOMAIN CreateKind
            THEN objs \cup {<<CreateKind[o[1]], o[2], o[3]>>}
            ELSE IF o[1] \in DOMAIN DestroyKind
            THEN {x \in objs : ~(x[1] = DestroyKind[o[1]] /\ x[2] = o[2])}
            ELSE objs,
            Tail(ops))

RECURSIVE Misdestroyed(_, _)
\* the objects a sequence of operations destroys while they are not live
\* (never created, or destroyed before)
Misdestroyed(objs, ops) ==
    IF ops = <<>> THEN {}
    ELSE LET o == Head(ops) IN
         (IF /\ o[1] \in DOMAIN DestroyKind
             /\ ~\E x \in objs : x[1] = DestroyKind[o[1]] /\ x[2] = o[2]
          THEN {<<DestroyKind[o[1]], o[2]>>} ELSE {})
         \cup Misdestroyed(ApplyOps(objs, <<o>>), Tail(ops))

\* the views and framebuffers an Internals holds
HeldObjects(opt) ==
    IF opt = None THEN {}
    ELSE LET int == opt[1] IN
         {<<"view", int.depth_image_view>>, <<"view", int.color_image_view>>}
         \cup {<<"view", int.frames[i].swapchain_image_view>> :
                    i \in 1..Len(int.frames)}
         \cup {<<"framebuffer", int.frames[i].framebuffer>> :
                    i \in 1..Len(int.frames)}

\* FramebufferManager::new
InitFb ==
    /\ internals = None
    /\ vr \in BOOLEAN
    /\ live = {}
    /\ resizeCount = 0
    /\ fbPc = "ready"
    /\ lastResize = NoResize
    /\ lastQuery = NoQuery
    /\ misdestroyed = {} /\ dropOps = <<>>
    /\ SyncIdle
    /\ WinitIdle
    /\ XrIdle
    /\ KitIdle
    /\ DeskIdle
    /\ QueryIdle
    /\ UboIdle

Resize(n, extent, fail) ==
    /\ fbPc = "ready"
    /\ resizeCount < MaxResizes
    /\ fail[1] = "device_wait_idle" => internals # None
    /\ LET r == FbResize(resizeCount, n, extent, fail) IN
       /\ internals' = r.internals
       /\ live' = ApplyOps(live, r.ops)
       /\ lastResize' = [ops |-> r.ops, ret |-> r.ret, n |-> n,
                         extent |-> extent, old |-> HeldObjects(internals),
                         okExtent |-> IF r.ret = "Ok" THEN extent
                                      ELSE lastResize.okExtent,
                         same |-> /\ lastResize.ret = "Ok"
                                  /\ lastResize.n = n
                                  /\ lastResize.extent = extent,
                         before |-> KindCount(live),
                         allOk |-> lastResize.allOk /\ r.ret = "Ok"]
       /\ misdestroyed' = misdestroyed \cup Misdestroyed(live, r.ops)
       /\ fbPc' = IF r.ret = "panic" THEN "panicked" ELSE "ready"
    /\ resizeCount' = resizeCount + 1
    /\ lastQuery' = NoQuery
    /\ UNCHANGED <<nonFb, vr, dropOps>>

\* variant: a null handle while there are no Internals
FbFrame_NullBeforeResize(swapchain_image_index) ==
    IF internals = None THEN <<"Ok", 0>>
    ELSE IF swapchain_image_index >= Len(internals[1].frames)
    THEN <<"panic", "Invalid swapchain image index">>
    ELSE <<"Ok", internals[1].frames[swapchain_image_index + 1].framebuffer>>

\* variant: an index past the end yields the last entry
FbFrame_LastOnOverflow(swapchain_image_index) ==
    IF internals = None THEN <<"panic", "Frame called before resize">>
    ELSE IF swapchain_image_index >= Len(internals[1].frames)
    THEN <<"Ok", internals[1].frames[Len(internals[1].frames)].framebuffer>>
    ELSE <<"Ok", internals[1].frames[swapchain_image_index + 1].framebuffer>>

\* FramebufferManager::frame(swapchain_image_index): the framebuffer of
\* that entry, or a panic from one of the two `expect`s
FbFrame(swapchain_image_index) ==
    IF internals = None THEN <<"panic", "Frame called before resize">>
    ELSE IF swapchain_image_index >= Len(internals[1].frames)
    THEN <<"panic", "Invalid swapchain image index">>
    ELSE <<"Ok", internals[1].frames[swapchain_image_index + 1].framebuffer>>

\* variant: a zero extent while there are no Internals
FbExtent_Default ==
    IF internals = None THEN <<"Ok", <<0, 0>>>>
    ELSE <<"Ok", internals[1].extent>>

\* FramebufferManager::extent()
FbExtent ==
    IF internals = None THEN <<"panic", "Dimensions called before resize">>
    ELSE <<"Ok", internals[1].extent>>

\* a call of frame(idx); a panic unwinds into the owner of the manager
CallFrame(idx) ==
    /\ fbPc = "ready"
    /\ lastQuery' = [op |-> "frame", idx |-> idx, ret |-> FbFrame(idx)]
    /\ fbPc' = IF FbFrame(idx)[1] = "panic" THEN "unwinding" ELSE "ready"
    /\ UNCHANGED <<nonFb, internals, vr, live, resizeCount, lastResize,
                   misdestroyed, dropOps>>

\* a call of extent()
CallExtent ==
    /\ fbPc = "ready"
    /\ lastQuery' = [op |-> "extent", idx |-> 0, ret |-> FbExtent]
    /\ fbPc' = IF FbExtent[1] = "panic" THEN "unwinding" ELSE "ready"
    /\ UNCHANGED <<nonFb, internals, vr, live, resizeCount, lastResize,
                   misdestroyed, dropOps>>

\* Drop for FramebufferManager: free the Internals, if any; it runs when
\* the owner drops the manager, also while a panic unwinds
FbDrop(idleOk) ==
    /\ fbPc \in {"ready", "unwinding"}
    /\ idleOk \/ internals # None
    /\ live' = IF internals # None
               THEN ApplyOps(live, InternalsFree(internals[1], idleOk))
               ELSE live
    /\ misdestroyed' =
          IF internals # None
          THEN misdestroyed
               \cup Misdestroyed(live, InternalsFree(internals[1], idleOk))
          ELSE misdestroyed
    /\ dropOps' = IF internals # None
                  THEN InternalsFree(internals[1], idleOk) ELSE <<>>
    /\ internals' = None
    /\ fbPc' = IF idleOk THEN "dropped" ELSE "panicked"
    /\ UNCHANGED <<nonFb, vr, resizeCount, lastResize, lastQuery>>

NextFb ==
    \/ \E n \in 1..MaxFbImages, extent \in Extents :
          \E fail \in FailPoints(n) : Resize(n, extent, fail)
    \/ \E idx \in 0..MaxFbImages : CallFrame(idx)
    \/ CallExtent
    \/ \E idleOk \in BOOLEAN : FbDrop(idleOk)

SpecFb == InitFb /\ [][NextFb]_vars

\* --------------------------------------------------------- claims, SpecFb
OpIndex(ops, names) == {i \in 1..Len(ops) : ops[i][1] \in names}

\* C10: resize first waits for the queue to go idle, and destroys nothing
\* unless that wait succeeded; every view and framebuffer of the previous
\* Internals is destroyed before any new object is created; a successful
\* call ends with one framebuffer per supplied image.
C10_ResizeOrder ==
    lastResize.ret # "none" =>
        LET ops == lastResize.ops
            creates == OpIndex(ops, DOMAIN CreateKind)
            destroys == OpIndex(ops, DOMAIN DestroyKind)
        IN  /\ ops[1][1] \in {"queue_wait_idle", "queue_wait_idle_failed"}
            /\ ops[1][1] = "queue_wait_idle_failed" =>
                  Len(ops) = 1 /\ lastResize.ret = "Err"
            /\ \A c \in creates : \A o \in lastResize.old :
                  \E d \in destroys :
                     /\ d < c
                     /\ DestroyKind[ops[d][1]] = o[1] /\ ops[d][2] = o[2]
            /\ \A d \in destroys : d > 1 /\ ops[1][1] = "queue_wait_idle"
            /\ lastResize.old = {} /\ lastResize.ret = "Ok" => destroys = {}
            /\ lastResize.ret = "Ok" =>
                  /\ Cardinality(OpIndex(ops, {"create_framebuffer"})) = lastResize.n
                  /\ Cardinality(OpIndex(ops, {"create_image_view"})) = lastResize.n + 2
                  /\ Cardinality(OpIndex(ops, {"create_image"})) = 2

\* a successful resize that replaced a set built for another image count
C10_Witness ==
    /\ lastResize.ret = "Ok"
    /\ Cardinality(lastResize.old) = 2 + 2 * MaxFbImages
    /\ lastResize.n = 1

\* the attachment images, and the views of attachment images, on the device
LiveImages == {x \in live : x[1] = "image"}
AttachmentViews == {x \in live : x[1] = "view" /\ x[3] > 0}
\* views whose image has been destroyed
DanglingViews ==
    {v \in AttachmentViews :
        ~\E im \in LiveImages : im[2] = v[3]}

\* C11: whenever resize has returned (Ok or Err), at most two attachment
\* images and two views of them are live, and no image view is live whose
\* image has been destroyed.
C11_OneAttachmentSet ==
    (fbPc = "ready" /\ lastResize.ret \in {"Ok", "Err"}) =>
        /\ Cardinality(LiveImages) <= 2
        /\ Cardinality(AttachmentViews) <= 2
        /\ DanglingViews = {}

\* C12: after a successful resize with n images the manager holds n
\* entries, entry i being a live framebuffer and a live view of images[i];
\* frame(i) then returns entry i's framebuffer for i < n and panics for
\* every i >= n.
C12_EntriesMatchImages ==
    /\ (lastResize.ret = "Ok" /\ internals # None) =>
          LET frames == internals[1].frames IN
          /\ Len(frames) = lastResize.n
          /\ \A i \in 1..Len(frames) :
                /\ <<"view", frames[i].swapchain_image_view, SwapImage(i)>>
                      \in live
                /\ <<"framebuffer", frames[i].framebuffer, 0>> \in live
                /\ frames[i].framebuffer = Framebuffer(resizeCount - 1, i)
    /\ (lastResize.ret = "Ok" /\ lastQuery.op = "frame") =>
          IF lastQuery.idx < lastResize.n
          THEN lastQuery.ret =
                  <<"Ok", Framebuffer(resizeCount - 1, lastQuery.idx + 1)>>
          ELSE lastQuery.ret = <<"panic", "Invalid swapchain image index">>

\* a resize to one image replaced a larger set, and frame(1) was then called
C12_Witness ==
    /\ lastResize.ret = "Ok" /\ lastResize.n = 1
    /\ Cardinality(lastResize.old) = 2 + 2 * MaxFbImages
    /\ lastQuery.op = "frame" /\ lastQuery.idx = 1
    /\ lastQuery.ret = <<"panic", "Invalid swapchain image index">>

\* C13 as stated: once a resize has succeeded, extent() returns the extent
\* of the most recent successful resize.
C13_ExtentReflectsLastOk ==
    (lastQuery.op = "extent" /\ lastResize.okExtent # <<0, 0>>) =>
        lastQuery.ret = <<"Ok", lastResize.okExtent>>

\* C13: extent() called when the last resize succeeded returns exactly the
\* extent of that call; whenever extent() returns a value it is the extent
\* of the most recent successful resize; and when it panics there are no
\* Internals (no resize has succeeded yet, or a later resize failed after
\* it had freed them).
C13_ExtentRoundTrip ==
    lastQuery.op = "extent" =>
        /\ lastResize.ret = "Ok" => lastQuery.ret = <<"Ok", lastResize.extent>>
        /\ lastQuery.ret[1] = "Ok" => lastQuery.ret[2] = lastResize.okExtent
        /\ lastQuery.ret[1] = "panic" =>
              /\ lastQuery.ret[2] = "Dimensions called before resize"
              /\ internals = None
              /\ lastResize.ret \in {"none", "Err"}

\* extent() after a successful resize and a resize that failed at its idle
\* wait: the first call's extent
C13_Witness ==
    /\ lastResize.ret = "Err" /\ lastResize.extent # lastResize.okExtent
    /\ lastQuery.op = "extent"
    /\ lastQuery.ret = <<"Ok", lastResize.okExtent>>

\* handles of the objects made by the resize call before the last one
PreviousHandles == (Base(resizeCount - 2) + 1)..Base(resizeCount - 1)

\* C14: a successful resize that follows a successful resize with the same
\* images and extent leaves the extent, the number of entries and the
\* number of live images, memory blocks, views and framebuffers as the first
\* call left them, and nothing the first call created is still live.
C14_ResizeIdempotent ==
    (lastResize.ret = "Ok" /\ lastResize.same /\ internals # None) =>
        /\ internals[1].extent = lastResize.extent
        /\ Len(internals[1].frames) = lastResize.n
        /\ Cardinality(lastResize.old) = 2 + 2 * lastResize.n
        /\ KindCount(live) = lastResize.before
        /\ \A x \in live : x[2] \notin PreviousHandles

\* two successful resizes in a row with the same two images and extent
C14_Witness ==
    /\ lastResize.ret = "Ok" /\ lastResize.same /\ internals # None
    /\ lastResize.n = 2 /\ resizeCount = 2
    /\ KindCount(live)["framebuffer"] = 2

\* C15: as long as no resize has succeeded, frame(i) panics for every i and
\* extent() panics; neither returns a handle or an extent.
C15_PanicBeforeResize ==
    (lastResize.okExtent = <<0, 0>> /\ lastQuery.op # "none") =>
        /\ internals = None
        /\ lastQuery.op = "frame" =>
              lastQuery.ret = <<"panic", "Frame called before resize">>
        /\ lastQuery.op = "extent" =>
              lastQuery.ret = <<"panic", "Dimensions called before resize">>

\* frame(i), i > 0, called after nothing but a resize that failed part-way
C15_Witness ==
    /\ lastResize.ret = "Err" /\ lastResize.okExtent = <<0, 0>>
    /\ live # {}
    /\ lastQuery.op = "frame" /\ lastQuery.idx = MaxFbImages
    /\ lastQuery.ret[1] = "panic"

\* handles of the objects made by the last resize call
NewestHandles == (Base(resizeCount - 1) + 1)..Base(resizeCount)

\* C16: as long as every resize has succeeded, no object is destroyed twice
\* or without having been created; after each resize exactly the newest set
\* is live (2 images, 2 memory blocks, n + 2 views, n framebuffers); and
\* after drop nothing is live.
C16_DestroyedExactlyOnce ==
    lastResize.allOk =>
        /\ misdestroyed = {}
        /\ (fbPc \in {"ready", "unwinding"} /\ resizeCount > 0) =>
              /\ \A x \in live : x[2] \in NewestHandles
              /\ KindCount(live) =
                    [k \in ObjectKinds |->
                        CASE k \in {"image", "memory"} -> 2
                          [] k = "view" -> lastResize.n + 2
                          [] k = "framebuffer" -> lastResize.n]
        /\ fbPc = "dropped" => live = {}

\* a large set, then a smaller one at another extent, then drop
C16_Witness ==
    /\ lastResize.allOk /\ resizeCount = 2 /\ fbPc = "dropped"
    /\ Cardinality(lastResize.old) = 2 + 2 * MaxFbImages
    /\ lastResize.n = MaxFbImages - 1
    /\ lastResize.extent = <<1024, 768>>

\* the create calls of the last resize that made an image or an image view
LayeredCreates ==
    OpIndex(lastResize.ops, {"create_image", "create_image_view"})

C17_LayersState ==
    \A i \in LayeredCreates :
        lastResize.ops[i][4] = IF vr THEN 2 ELSE 1

\* C17: every image and every image view a resize creates (the calls that
\* fail part-way included) has 2 array layers when the manager was
\* constructed with vr and 1 otherwise, and no operation changes the flag.
C17_LayersFollowVr == [](C17_LayersState) /\ [][vr' = vr]_vars

\* a VR manager resized to the largest image set
C17_Witness ==
    /\ vr /\ lastResize.ret = "Ok" /\ lastResize.n = MaxFbImages
    /\ Cardinality(LayeredCreates) = MaxFbImages + 4
    /\ \A i \in LayeredCreates : lastResize.ops[i][4] = 2

\* a step in which the manager is dropped
DropStep ==
    /\ fbPc \in {"ready", "unwinding"}
    /\ fbPc' \in {"dropped", "panicked"}
    /\ resizeCount' = resizeCount

C18_Step ==
    DropStep =>
        /\ internals = None =>
              dropOps' = <<>> /\ live' = live /\ fbPc' = "dropped"
        /\ internals # None =>
              /\ dropOps'[1][1] \in
                    {"device_wait_idle", "device_wait_idle_failed"}
              /\ \A i \in OpIndex(dropOps', {"destroy_framebuffer",
                                              "destroy_image_view"}) :
                    i > 1 /\ dropOps'[1][1] = "device_wait_idle"
              /\ fbPc' = "dropped" =>
                    /\ \A o \in HeldObjects(internals) :
                          \E i \in 2..Len(dropOps') :
                             /\ DestroyKind[dropOps'[i][1]] = o[1]
                             /\ dropOps'[i][2] = o[2]
                    /\ SubSeq(FbResize(resizeCount, 1, <<800, 600>>,
                                       NoFail).ops,
                              2, Len(dropOps') + 1) = dropOps'

\* C18: a drop of a manager that holds Internals first waits for the device
\* and destroys no framebuffer or view unless that wait succeeded; it then
\* makes exactly the destroy calls a resize of the same manager would make
\* after its queue wait; a drop of a manager without Internals makes no
\* call.
C18_DropWaitsThenFrees == [][C18_Step]_vars

\* the largest set was dropped
C18_Witness ==
    /\ fbPc = "dropped"
    /\ Len(dropOps) = 7 + 2 * MaxFbImages
    /\ live = {}

\* ------------------------------------------------ claims, SpecSync (drop)
C19_DropStep ==
    (alive /\ ~alive') =>
        \A f \in Range(in_flight_fences) : fenceState[f] # "pending"

\* C19: when the Synchronization is dropped, none of the fences it destroys
\* belongs to a submission that is still pending on the device.
C19_DropWaitsForIdle == [][C19_DropStep]_vars

\* ====================================================== openxr_backend.rs
\* what poll_event can hand out: the session states the loop matches on,
\* another session state, and the other events
XrEvents == {"READY", "STOPPING", "EXITING", "LOSS_PENDING", "OTHER_STATE",
             "InstanceLossPending", "EventsLost", "Other"}

\* views[0].recommended_image_rect_{width,height}
RecommendedExtent == <<1024, 768>>

\* a runtime-side counter going up and down
Inc(x) == IF x < MaxXrCount THEN x + 1 ELSE x
Dec(x) == IF x > 0 THEN x - 1 ELSE x

\* where Swapchain::frame can fail in the current state
XrFrameFails ==
    {"none", "begin"}
    \cup (IF ~should_render THEN {"end"} ELSE {"acquire_image", "wait_image"})
    \cup (IF should_render /\ swapchain = None
          THEN {"enumerate_views", "create_swapchain", "enumerate_images"}
          ELSE {})

\* Swapchain::recreate_swapchain: self.swapchain = None, then the views
\* (unwrap), create_swapchain (unwrap), enumerate_images (?), and only then
\* the two fields are set
RecreateSwapchain(fail) ==
    IF fail \in {"enumerate_views", "create_swapchain"}
    THEN [ret |-> "panic", swapchain |-> None, extent |-> current_extent,
          images |-> None, calls |-> <<>>]
    ELSE IF fail = "enumerate_images"
    THEN [ret |-> "Err", swapchain |-> None, extent |-> current_extent,
          images |-> None, calls |-> <<"create_swapchain">>]
    ELSE [ret |-> "Ok", swapchain |-> Some(1), extent |-> RecommendedExtent,
          images |-> Some(<<MaxXrImages, RecommendedExtent>>),
          calls |-> <<"create_swapchain">>]

\* the outcome of Swapchain::frame: what it returns, the calls it made and
\* the fields and runtime counters it leaves
Out(ret, i, rs, calls, sc, ext, open, held) ==
    [ret |-> ret, idx |-> i, resize |-> rs, calls |-> calls,
     swapchain |-> sc, extent |-> ext, open |-> open, held |-> held]

\* variant: a frame that is not to be rendered returns without the end call
FrameNotRendered_NoEnd(fail) ==
    Out("Ok", None, None, <<"begin">>, swapchain, current_extent,
        Inc(bracketsOpen), imagesHeld)

\* Swapchain::frame, `if !xr_frame_state.should_render`: the bracket just
\* begun is ended with no layers and (None, None) returned
FrameNotRendered(fail) ==
    IF fail = "end"
    THEN Out("Err", None, None, <<"begin", "end_failed">>,
             swapchain, current_extent, Inc(bracketsOpen), imagesHeld)
    ELSE Out("Ok", None, None, <<"begin", "end_empty">>,
             swapchain, current_extent, Dec(Inc(bracketsOpen)), imagesHeld)

\* variant: the swapchain is recreated in every rendered frame
ResizeIfNone_Always(fail) == RecreateSwapchain(fail)

\* Swapchain::frame, `let resize = if self.swapchain.is_none() {
\* Some(self.recreate_swapchain()?) } else { None }`
ResizeIfNone(fail) ==
    IF swapchain = None THEN RecreateSwapchain(fail)
    ELSE [ret |-> "Ok", swapchain |-> swapchain, extent |-> current_extent,
          images |-> None, calls |-> <<>>]

\* Swapchain::frame(xr_frame_state)
XrSwapchainFrame(fail, idx) ==
    LET rc == ResizeIfNone(fail)
        o1 == Inc(bracketsOpen)
    IN  IF fail = "begin"
        THEN Out("Err", None, None, <<"begin_failed">>, swapchain,
                 current_extent, bracketsOpen, imagesHeld)
        ELSE IF ~should_render THEN FrameNotRendered(fail)
        ELSE IF rc.ret # "Ok"
        THEN Out(rc.ret, None, None, <<"begin">> \o rc.calls, rc.swapchain,
                 rc.extent, o1, imagesHeld)
        ELSE IF fail = "acquire_image"
        THEN Out("Err", None, None,
                 <<"begin">> \o rc.calls \o <<"acquire_failed">>,
                 rc.swapchain, rc.extent, o1, imagesHeld)
        ELSE IF fail = "wait_image"
        THEN Out("Err", None, None,
                 <<"begin">> \o rc.calls
                 \o <<"acquire_image", "wait_image_failed">>,
                 rc.swapchain, rc.extent, o1, Inc(imagesHeld))
        ELSE Out("Ok", Some(idx), rc.images,
                 <<"begin">> \o rc.calls \o <<"acquire_image", "wait_image">>,
                 rc.swapchain, rc.extent, o1, Inc(imagesHeld))

\* variant: the bracket is ended without releasing the image
XrQueuePresent_NoRelease(fail) ==
    IF fail = "none"
    THEN [ret |-> "Ok", calls |-> <<"end_layers">>,
          open |-> Dec(bracketsOpen), held |-> imagesHeld]
    ELSE [ret |-> "Err", calls |-> <<"end_failed">>,
          open |-> bracketsOpen, held |-> imagesHeld]

\* Swapchain::queue_present(xr_frame_state, views): release_image, then
\* frame_stream.end with the projection layer of the two views; views[0]
\* and views[1] panic when the application returned fewer than two views
XrQueuePresent(fail) ==
    IF fail = "release_image"
    THEN [ret |-> "Err", calls |-> <<"release_failed">>,
          open |-> bracketsOpen, held |-> imagesHeld]
    ELSE IF fail = "views"
    THEN [ret |-> "panic", calls |-> <<"release_image">>,
          open |-> bracketsOpen, held |-> Dec(imagesHeld)]
    ELSE IF fail = "end"
    THEN [ret |-> "Err", calls |-> <<"release_image", "end_failed">>,
          open |-> bracketsOpen, held |-> Dec(imagesHeld)]
    ELSE [ret |-> "Ok", calls |-> <<"release_image", "end_layers">>,
          open |-> Dec(bracketsOpen), held |-> Dec(imagesHeld)]

\* launch after build_cores, Swapchain::new and M::new
InitXr ==
    /\ running = TRUE /\ session_running = FALSE
    /\ swapchain = None /\ current_extent = <<0, 0>>
    /\ should_render = FALSE /\ xrPc = "top" /\ xrRet = "none"
    /\ xrFrameRet = NoXrFrame
    /\ bracketsOpen = 0 /\ waitsPending = 0 /\ imagesHeld = 0
    /\ tickCalls = <<>> /\ lastEvent = NoEvent /\ xrAppImages = None
    /\ SyncIdle
    /\ WinitIdle
    /\ FbIdle
    /\ KitIdle
    /\ DeskIdle
    /\ QueryIdle
    /\ UboIdle

\* launch returns (break, `?`) or panics (unwrap)
XrExit(ret) == xrPc' = "exited" /\ xrRet' = ret

\* the Ctrl-C handler: r.store(false)
CtrlC ==
    /\ xrPc \notin {"off", "exited"} /\ running
    /\ running' = FALSE
    /\ UNCHANGED <<nonXr, session_running, swapchain, current_extent,
                   should_render, xrPc, xrRet, xrFrameRet, bracketsOpen,
                   waitsPending, imagesHeld, tickCalls, lastEvent,
                   xrAppImages>>

\* variant: every error of request_exit is propagated with `?`
RequestExit_Propagates(res) ==
    IF res = "ok" THEN "continue" ELSE "Err"

\* `if let Err(ERROR_SESSION_NOT_RUNNING) = res { break Ok(()) } res?`
RequestExit(res) ==
    IF res = "ok" THEN "continue"
    ELSE IF res = "not_running" THEN "Ok"
    ELSE "Err"

\* top of 'main_loop: request_exit once the flag is cleared; res is the
\* runtime's answer
XrTop(res) ==
    /\ xrPc = "top"
    /\ running => res = "ok"
    /\ tickCalls' = <<>>
    /\ xrFrameRet' = NoXrFrame
    /\ lastEvent' = [NoEvent EXCEPT !.session_call =
                        IF running THEN "none" ELSE "request_exit_" \o res]
    /\ IF running \/ RequestExit(res) = "continue"
       THEN xrPc' = "events" /\ xrRet' = xrRet
       ELSE XrExit(RequestExit(res))
    /\ UNCHANGED <<nonXr, running, session_running, swapchain, current_extent,
                   should_render, bracketsOpen, waitsPending, imagesHeld,
                   xrAppImages>>

\* variant: loss events are not terminal
MatchEvent_IgnoreLoss(ev) ==
    IF ev = "READY" THEN "begin"
    ELSE IF ev = "STOPPING" THEN "end"
    ELSE IF ev = "EXITING" THEN "break"
    ELSE "none"

\* variant: any other session state also begins the session
MatchEvent_BeginOnAnyState(ev) ==
    IF ev \in {"READY", "OTHER_STATE"} THEN "begin"
    ELSE IF ev = "STOPPING" THEN "end"
    ELSE IF ev \in {"EXITING", "LOSS_PENDING", "InstanceLossPending"}
    THEN "break"
    ELSE "none"

\* `match event`: what the loop does with an event before forwarding it
MatchEvent(ev) ==
    IF ev = "READY" THEN "begin"
    ELSE IF ev = "STOPPING" THEN "end"
    ELSE IF ev \in {"EXITING", "LOSS_PENDING", "InstanceLossPending"}
    THEN "break"
    ELSE "none"

\* one turn of `while let Some(event) = poll_event(..)`: the match on the
\* event, then app.event(..)?
XrPollEvent(ev, callOk, appOk) ==
    /\ xrPc = "events"
    /\ MatchEvent(ev) \notin {"begin", "end"} => callOk
    /\ (MatchEvent(ev) = "break" \/ ~callOk) => appOk
    /\ IF MatchEvent(ev) \in {"begin", "end"} /\ ~callOk
       THEN /\ XrExit("panic") /\ session_running' = session_running
            /\ lastEvent' = [ev |-> ev, forwarded |-> FALSE,
                             session_call |-> "failed"]
       ELSE IF MatchEvent(ev) = "break"
       THEN /\ XrExit("Ok") /\ session_running' = session_running
            /\ lastEvent' = [ev |-> ev, forwarded |-> FALSE,
                             session_call |-> "none"]
       ELSE /\ session_running' = IF MatchEvent(ev) = "begin" THEN TRUE
                                  ELSE IF MatchEvent(ev) = "end" THEN FALSE
                                  ELSE session_running
            /\ lastEvent' = [ev |-> ev, forwarded |-> TRUE,
                             session_call |-> MatchEvent(ev)]
            /\ IF appOk THEN xrPc' = "events" /\ xrRet' = xrRet
               ELSE XrExit("Err")
    /\ UNCHANGED <<nonXr, running, swapchain, current_extent, should_render,
                   xrFrameRet, bracketsOpen, waitsPending, imagesHeld,
                   tickCalls, xrAppImages>>

\* poll_event returns None: sleep and `continue` while the session is not
\* running, else go on to the frame
XrPollNone ==
    /\ xrPc = "events"
    /\ IF session_running
       THEN xrPc' = "wait" /\ tickCalls' = tickCalls
       ELSE xrPc' = "top" /\ tickCalls' = <<"sleep">>
    /\ lastEvent' = NoEvent
    /\ UNCHANGED <<nonXr, running, session_running, swapchain, current_extent,
                   should_render, xrRet, xrFrameRet, bracketsOpen,
                   waitsPending, imagesHeld, xrAppImages>>

\* poll_event(..).unwrap() on an error of the runtime
XrPollFailed ==
    /\ xrPc = "events"
    /\ XrExit("panic")
    /\ lastEvent' = NoEvent
    /\ UNCHANGED <<nonXr, running, session_running, swapchain, current_extent,
                   should_render, xrFrameRet, bracketsOpen, waitsPending,
                   imagesHeld, tickCalls, xrAppImages>>

\* `let xr_frame_state = frame_waiter.wait()?`
XrWait(ok, sr) ==
    /\ xrPc = "wait"
    /\ ~ok => ~sr
    /\ IF ok
       THEN /\ xrPc' = "frame" /\ xrRet' = xrRet
            /\ should_render' = sr
            /\ waitsPending' = Inc(waitsPending)
            /\ tickCalls' = Append(tickCalls, "wait")
       ELSE /\ XrExit("Err")
            /\ UNCHANGED <<should_render, waitsPending, tickCalls>>
    /\ UNCHANGED <<nonXr, running, session_running, swapchain, current_extent,
                   xrFrameRet, bracketsOpen, imagesHeld, lastEvent,
                   xrAppImages>>

\* `let (swapchain_index, resize) = swapchain.frame(xr_frame_state)?` and
\* the match on swapchain_index
XrFrame(fail, idx) ==
    /\ xrPc = "frame"
    /\ fail \in XrFrameFails
    /\ (fail # "none" \/ ~should_render) => idx = 0
    /\ LET r == XrSwapchainFrame(fail, idx) IN
       /\ swapchain' = r.swapchain
       /\ current_extent' = r.extent
       /\ bracketsOpen' = r.open
       /\ imagesHeld' = r.held
       /\ waitsPending' = IF fail = "begin" THEN waitsPending
                          ELSE Dec(waitsPending)
       /\ tickCalls' = tickCalls \o r.calls
       /\ xrFrameRet' = [ret |-> r.ret, idx |-> r.idx, resize |-> r.resize]
       /\ IF r.ret # "Ok" THEN XrExit(r.ret)
          ELSE /\ xrRet' = xrRet
               /\ xrPc' = IF r.idx = None THEN "top"
                          ELSE IF r.resize # None THEN "resize"
                          ELSE "app_frame"
    /\ UNCHANGED <<nonXr, running, session_running, should_render,
                   lastEvent,
                   xrAppImages>>

\* variant: the resize returned by frame is dropped
XrResize_Skipped(ok) ==
    /\ xrPc = "resize"
    /\ xrPc' = "app_frame"
    /\ UNCHANGED <<nonXr, running, session_running, swapchain, current_extent,
                   should_render, xrRet, xrFrameRet, bracketsOpen,
                   waitsPending, imagesHeld, tickCalls, lastEvent,
                   xrAppImages>>

\* `app.swapchain_resize(images, extent)?`
XrResize(ok) ==
    /\ xrPc = "resize"
    /\ tickCalls' = Append(tickCalls, "swapchain_resize")
    /\ IF ok THEN /\ xrPc' = "app_frame" /\ xrRet' = xrRet
                  /\ xrAppImages' = xrFrameRet.resize
       ELSE XrExit("Err") /\ xrAppImages' = xrAppImages
    /\ UNCHANGED <<nonXr, running, session_running, swapchain, current_extent,
                   should_render, xrFrameRet, bracketsOpen, waitsPending,
                   imagesHeld, lastEvent>>

\* `let ret = app.frame(..)?` and the match on the platform return
XrAppFrame(ret) ==
    /\ xrPc = "app_frame"
    /\ tickCalls' = Append(tickCalls, "app_frame")
    /\ IF ret = "OpenXr" THEN xrPc' = "present" /\ xrRet' = xrRet
       ELSE XrExit("Err")
    /\ UNCHANGED <<nonXr, running, session_running, swapchain, current_extent,
                   should_render, xrFrameRet, bracketsOpen, waitsPending,
                   imagesHeld, lastEvent,
                   xrAppImages>>

\* `swapchain.queue_present(xr_frame_state, views)?`
XrPresent(fail) ==
    /\ xrPc = "present"
    /\ LET r == XrQueuePresent(fail) IN
       /\ bracketsOpen' = r.open
       /\ imagesHeld' = r.held
       /\ tickCalls' = tickCalls \o r.calls
       /\ IF r.ret = "Ok" THEN xrPc' = "top" /\ xrRet' = xrRet
          ELSE XrExit(r.ret)
    /\ UNCHANGED <<nonXr, running, session_running, swapchain, current_extent,
                   should_render, xrFrameRet, waitsPending, lastEvent,
                   xrAppImages>>

NextXr ==
    \/ CtrlC
    \/ \E res \in {"ok", "not_running", "err"} : XrTop(res)
    \/ \E ev \in XrEvents, callOk \in BOOLEAN, appOk \in BOOLEAN :
          XrPollEvent(ev, callOk, appOk)
    \/ XrPollNone
    \/ XrPollFailed
    \/ \E ok \in BOOLEAN, sr \in BOOLEAN : XrWait(ok, sr)
    \/ \E fail \in {"none", "begin", "end", "enumerate_views",
                     "create_swapchain", "enumerate_images",
                     "acquire_image", "wait_image"},
          idx \in 0..(MaxXrImages - 1) : XrFrame(fail, idx)
    \/ \E ok \in BOOLEAN : XrResize(ok)
    \/ \E ret \in {"OpenXr", "Winit", "Err"} : XrAppFrame(ret)
    \/ \E fail \in {"none", "release_image", "views", "end"} :
          XrPresent(fail)

SpecXr == InitXr /\ [][NextXr]_vars

\* once exit was requested the runtime hands out the EXITING state change
\* at some poll
XrDeliverExiting ==
    /\ ~running
    /\ \E callOk, appOk \in BOOLEAN : XrPollEvent("EXITING", callOk, appOk)

\* the loop keeps running (it is a sequential loop whose calls return), and
\* the runtime delivers EXITING to a loop that keeps polling after
\* request_exit
SpecXrFair ==
    /\ InitXr /\ [][NextXr]_vars
    /\ WF_vars(NextXr)
    /\ SF_vars(XrDeliverExiting)

\* ---------------------------------------------------------- claims, SpecXr
\* how often a call occurs in the calls of the tick
CallCount(names) ==
    Cardinality({i \in 1..Len(tickCalls) : tickCalls[i] \in names})

\* the calls of a tick that ran to its end
CompleteTicks ==
    {<<>>, <<"sleep">>,
     <<"wait", "begin", "end_empty">>,
     <<"wait", "begin", "acquire_image", "wait_image", "app_frame",
       "release_image", "end_layers">>,
     <<"wait", "begin", "create_swapchain", "acquire_image", "wait_image",
       "swapchain_resize", "app_frame", "release_image", "end_layers">>}

\* C20: at most one frame bracket is open; none is open where the next
\* begin is made; a frame that is not to be rendered is begun and ended
\* with no layers inside Swapchain::frame, which returns no image index, and
\* the tick then makes no further call; a rendered frame keeps its bracket
\* open until queue_present ends it; every frame wait is followed by one
\* begin; a bracket is left open only by a launch that fails.
C20_BracketsClosed ==
    /\ bracketsOpen \in {0, 1} /\ waitsPending \in {0, 1}
    /\ xrPc \in {"top", "events", "wait", "frame"} => bracketsOpen = 0
    /\ xrPc \in {"resize", "app_frame", "present"} =>
          /\ bracketsOpen = 1 /\ should_render
          /\ xrFrameRet.ret = "Ok" /\ xrFrameRet.idx # None
          /\ CallCount({"begin"}) = 1
          /\ CallCount({"end_empty", "end_layers", "end_failed"}) = 0
    /\ xrPc # "exited" => (waitsPending = 1 <=> xrPc = "frame")
    /\ CallCount({"wait"}) >= CallCount({"begin", "begin_failed"})
    /\ xrPc \notin {"frame", "exited"} =>
          CallCount({"wait"}) = CallCount({"begin"})
    /\ xrPc = "top" => tickCalls \in CompleteTicks
    /\ (xrFrameRet.ret = "Ok" /\ xrFrameRet.idx = None) =>
          /\ ~should_render /\ xrPc = "top"
          /\ tickCalls = <<"wait", "begin", "end_empty">>
    /\ (xrPc = "exited" /\ bracketsOpen = 1) => xrRet \in {"Err", "panic"}

\* a frame that was not to be rendered, after frames that were
C20_Witness ==
    /\ xrPc = "top" /\ swapchain # None
    /\ xrFrameRet = [ret |-> "Ok", idx |-> None, resize |-> None]
    /\ tickCalls = <<"wait", "begin", "end_empty">>
    /\ bracketsOpen = 0

\* the calls a step adds to the calls of the tick
NewCalls ==
    IF Len(tickCalls') > Len(tickCalls)
    THEN SubSeq(tickCalls', Len(tickCalls) + 1, Len(tickCalls'))
    ELSE <<>>

\* a step in which Swapchain::frame is called
XrFrameStep == xrPc = "frame" /\ xrPc' # "frame"

C21_Step ==
    /\ swapchain # None => swapchain' = swapchain
    /\ swapchain' # swapchain => "create_swapchain" \in Range(NewCalls)
    /\ "create_swapchain" \in Range(NewCalls) =>
          XrFrameStep /\ swapchain = None /\ should_render
    /\ (XrFrameStep /\ xrFrameRet'.ret = "Ok") =>
          /\ xrFrameRet'.idx # None <=> should_render
          /\ xrFrameRet'.resize # None <=> (swapchain = None /\ should_render)
          /\ xrFrameRet'.resize # None =>
                /\ xrFrameRet'.resize =
                      Some(<<MaxXrImages, RecommendedExtent>>)
                /\ swapchain' # None
                /\ current_extent' = RecommendedExtent
                /\ "create_swapchain" \in Range(NewCalls)
          /\ xrFrameRet'.idx # None =>
                /\ swapchain' # None
                /\ Len(NewCalls) >= 2
                /\ SubSeq(NewCalls, Len(NewCalls) - 1, Len(NewCalls)) =
                      <<"acquire_image", "wait_image">>

\* C21: there is no swapchain until a frame that is to be rendered; the
\* swapchain is created only while there is none and never dropped again,
\* so at most once; a frame call that returns an image index returns
\* Some((images, extent)) exactly when it created the swapchain; and its
\* last two calls are acquire_image and wait_image.
C21_LazyOnce == [][C21_Step]_vars

\* a later rendered frame: an index and no resize
C21_Witness ==
    /\ xrPc = "app_frame" /\ swapchain # None
    /\ xrFrameRet.ret = "Ok" /\ xrFrameRet.idx # None
    /\ xrFrameRet.resize = None
    /\ "create_swapchain" \notin Range(tickCalls)

\* positions of a call in the calls of the tick
CallIndex(name) == {i \in 1..Len(tickCalls) : tickCalls[i] = name}

\* C22: at most one swapchain image is held; none is held where the next
\* acquire is made; from the return of frame to queue_present exactly the
\* image acquired and waited for in this bracket is held; queue_present is
\* reached only with that image held and the bracket open, releases it and
\* then ends the bracket with the projection layer; in a tick acquire,
\* wait, release and end follow one another, once each.
C22_AcquireReleaseAlternate ==
    /\ imagesHeld \in {0, 1}
    /\ xrPc \in {"top", "events", "wait", "frame"} => imagesHeld = 0
    /\ xrPc \in {"resize", "app_frame", "present"} =>
          /\ imagesHeld = 1 /\ bracketsOpen = 1
          /\ Cardinality(CallIndex("acquire_image")) = 1
          /\ Cardinality(CallIndex("wait_image")) = 1
          /\ CallIndex("release_image") = {}
          /\ \A a \in CallIndex("acquire_image") :
                /\ tickCalls[a - 1] \in {"begin", "create_swapchain"}
                /\ tickCalls[a + 1] = "wait_image"
    /\ \A r \in CallIndex("release_image") :
          /\ Cardinality(CallIndex("release_image")) = 1
          /\ \E a \in CallIndex("acquire_image") :
                /\ a < r /\ tickCalls[a + 1] = "wait_image"
                /\ Cardinality(CallIndex("acquire_image")) = 1
          /\ tickCalls[r - 1] = "app_frame"
          /\ r < Len(tickCalls) =>
                tickCalls[r + 1] \in {"end_layers", "end_failed"}
    /\ \A e \in CallIndex("end_layers") :
          e = Len(tickCalls) /\ tickCalls[e - 1] = "release_image"
               /\ imagesHeld = 0 /\ bracketsOpen = 0

\* the second rendered frame has been presented
C22_Witness ==
    /\ xrPc = "top" /\ imagesHeld = 0
    /\ tickCalls = <<"wait", "begin", "acquire_image", "wait_image",
                     "app_frame", "release_image", "end_layers">>

TerminalEvents == {"EXITING", "LOSS_PENDING", "InstanceLossPending"}

\* a step of the loop after it has returned: there is none
C23_NoStepAfterExit == xrPc # "exited"

\* C23: once poll_event hands out a terminal condition (session state EXITING
\* or LOSS_PENDING, or InstanceLossPending) the loop has returned Ok to its
\* caller, with no call of the frame path made in that tick, and it takes no
\* further step: no frame is waited for, begun, rendered or presented.
C23_TerminalEventExits ==
    /\ [](lastEvent.ev \in TerminalEvents =>
            /\ xrPc = "exited" /\ xrRet = "Ok"
            /\ tickCalls = <<>>)
    /\ [][C23_NoStepAfterExit]_vars

\* a loss event ends the loop while the session runs and has rendered frames
C23_Witness ==
    /\ lastEvent.ev \in {"LOSS_PENDING", "InstanceLossPending"}
    /\ xrPc = "exited" /\ xrRet = "Ok"
    /\ session_running /\ swapchain # None

FramePath == {"wait", "frame", "resize", "app_frame", "present"}

C24_Step ==
    /\ (~session_running /\ session_running') =>
            /\ lastEvent'.ev = "READY"
            /\ lastEvent'.session_call = "begin"
    /\ (session_running /\ ~session_running') =>
            /\ lastEvent'.ev = "STOPPING"
            /\ lastEvent'.session_call = "end"
    /\ lastEvent'.session_call = "begin" => session_running'
    /\ lastEvent'.session_call = "end" => ~session_running'
    /\ (xrPc = "events" /\ ~session_running /\ xrPc' \notin {"events", "exited"})
            => xrPc' = "top" /\ tickCalls' = <<"sleep">>

\* C24: session_running turns true only on a READY event whose session begin
\* returned, and false only on a STOPPING event whose session end returned;
\* the frame path (wait, begin, acquire, application frame, present) is
\* entered only while it is true, and a tick that ends its event drain with
\* it false sleeps and restarts having made none of those calls.
C24_RunsOnlyWhileSessionRunning ==
    /\ [](xrPc \in FramePath => session_running)
    /\ [](~session_running => \A i \in DOMAIN tickCalls : tickCalls[i] = "sleep")
    /\ [][C24_Step]_vars

\* a session that ran and rendered was stopped, and the tick after slept
C24_Witness ==
    /\ ~session_running /\ swapchain # None
    /\ xrPc = "top" /\ tickCalls = <<"sleep">>

\* ------------------------------------------------- both dispatcher loops
\* the program runs one of the two loops: begin_loop or launch
InitLoops == InitWinit \/ InitXr

NextLoops == NextWinit \/ NextXr

SpecLoops == InitLoops /\ [][NextLoops]_vars

\* the application's frame callback is running or has run in this tick
WinitInAppFrame == loopPc \in {"app_frame", "present"}
XrInAppFrame == xrPc = "app_frame" \/ "app_frame" \in Range(tickCalls)

\* C25: in both loops a resize returned by the acquisition leads to
\* swapchain_resize before the frame callback of the tick, with exactly the
\* images and extent returned; the frame callback runs only when the
\* application was last given the images of the swapchain in use.
C25_ResizeBeforeFrame ==
    /\ loopPc = "resize" => (lastFrame.ret = "Ok" /\ lastFrame.resize # None)
    /\ (lastFrame.ret = "Ok" /\ lastFrame.resize # None) =>
          \/ loopPc = "resize"
          \/ loopPc = "exited" /\ appImages # inner
          \/ appImages = lastFrame.resize[1].sc
    /\ WinitInAppFrame =>
          /\ appImages = inner
          /\ lastFrame.resize # None =>
                lastFrame.resize[1] = SwapchainImages(appImages, swapImages[inner])
    /\ xrPc = "resize" <=> (xrFrameRet.ret = "Ok" /\ xrFrameRet.resize # None
                              /\ "swapchain_resize" \notin Range(tickCalls))
    /\ XrInAppFrame =>
          /\ swapchain # None
          /\ xrAppImages = Some(<<MaxXrImages, current_extent>>)
          /\ xrFrameRet.resize # None =>
                /\ xrAppImages = xrFrameRet.resize
                /\ \A i \in CallIndex("app_frame") :
                      \E j \in CallIndex("swapchain_resize") : j < i

\* a rebuilt desktop swapchain, or the VR swapchain just created, was handed
\* to the application and its frame callback is about to run
C25_Witness ==
    \/ /\ loopPc = "app_frame" /\ lastFrame.resize # None /\ inner > 1
    \/ /\ xrPc = "app_frame" /\ xrFrameRet.resize # None

\* C26: every event a dispatcher loop receives is forwarded to app.event:
\* the desktop loop has forwarded the event before it acts on it (the redraw
\* path runs only for a forwarded RedrawRequested), and every event the VR
\* loop drained, session-state-change and loss events included, was handed
\* to app.event unless the session call made for it panicked.
C26_EveryEventForwarded ==
    /\ winitEvent.ev # "none" => winitEvent.forwarded
    /\ loopPc \in {"redraw", "resize", "app_frame", "present"} =>
          winitEvent = [ev |-> "RedrawRequested", forwarded |-> TRUE]
    /\ (lastEvent.ev # "none" /\ lastEvent.session_call # "failed") =>
          lastEvent.forwarded

\* ========================================================= starter_kit.rs
\* StarterKit::new: Synchronization::new(core, FRAMES_IN_FLIGHT, is winit)
\* and `frame: 0`
InitKit ==
    /\ frames_in_flight = FRAMES_IN_FLIGHT
    /\ khr_sync \in BOOLEAN
    /\ in_flight_fences = NewFences(frames_in_flight)
    /\ swapchain_sync = NewSwapchainSync(frames_in_flight, khr_sync)
    /\ swapchain_img_lut = [i \in Images |-> NoFence]
    /\ alive = TRUE
    /\ fenceState = NewFenceState
    /\ pendingImg = [f \in FenceIds |-> NoImage]
    /\ pc = "idle" /\ cur = NoCall /\ result = "none" /\ hist = "fresh"
    /\ lastRet = [i \in Images |-> NoFence]
    /\ frame = 0 /\ kitLast = NoKitCall
    /\ WinitIdle
    /\ FbIdle
    /\ XrIdle
    /\ DeskIdle
    /\ QueryIdle
    /\ UboIdle

\* variant: the slot index is not advanced
NextSlot_Stuck(f) == f

\* `self.frame = (self.frame + 1) % FRAMES_IN_FLIGHT`
NextSlot(f) == (f + 1) % FRAMES_IN_FLIGHT

\* variant: the submit info is built without semaphores in both branches
SubmitInfo_NoSemaphores(sems, fence) ==
    [fence |-> fence, wait |-> <<>>, signal |-> <<>>]

\* the two SubmitInfoBuilder branches of end_command_buffer and the fence
\* argument of queue_submit
SubmitInfo(sems, fence) ==
    IF sems # None
    THEN [fence |-> fence, wait |-> <<sems[1][1]>>, signal |-> <<sems[1][2]>>]
    ELSE [fence |-> fence, wait |-> <<>>, signal |-> <<>>]

\* CommandBufferStart::fence: the fence sync returned to begin_command_buffer
CmdFence == lastRet[cur.img]

\* begin_command_buffer(frame): `self.sync.sync(frame.swapchain_index,
\* self.frame)?` is entered
KitBeginCommandBuffer(img) == SyncCall(img, frame)

\* begin_command_buffer: sync has returned the fence; reset_command_buffer
\* or begin_command_buffer of the device fails (`?`), or the rest runs and
\* the CommandBufferStart is returned
KitBeginReturn(ok) ==
    /\ alive /\ pc = "returned"
    /\ kitLast' = [op |-> "begin_command_buffer",
                   ret |-> IF ok THEN "Ok" ELSE "Err", submit |-> NoSubmit]
    /\ pc' = IF ok THEN "recording" ELSE "failed"
    /\ result' = IF ok THEN result ELSE "err_begin"
    /\ UNCHANGED <<nonKit, frames_in_flight, khr_sync, in_flight_fences,
                   swapchain_sync, swapchain_img_lut, alive, fenceState,
                   pendingImg, cur, hist, lastRet, frame>>

\* end_command_buffer(cmd): the device's end_command_buffer, the submit
\* with or without the slot's semaphores, then the advance of the slot
KitEndCommandBuffer(fail) ==
    /\ alive /\ pc = "recording"
    /\ LET info == SubmitInfo(SwapchainSyncGet(frame), CmdFence) IN
       IF fail = "none"
       THEN /\ fenceState' = [fenceState EXCEPT ![info.fence] = "pending"]
            /\ pendingImg' = [pendingImg EXCEPT ![info.fence] = cur.img]
            /\ kitLast' = [op |-> "end_command_buffer", ret |-> "Ok",
                           submit |-> info]
            /\ frame' = NextSlot(frame)
       ELSE /\ UNCHANGED <<fenceState, pendingImg, frame>>
            /\ kitLast' = [op |-> "end_command_buffer", ret |-> "Err",
                           submit |-> IF fail = "submit" THEN info
                                      ELSE NoSubmit]
    /\ pc' = "idle"
    /\ cur' = NoCall
    /\ result' = "none"
    /\ UNCHANGED <<nonKit, frames_in_flight, khr_sync, in_flight_fences,
                   swapchain_sync, swapchain_img_lut, alive, hist, lastRet>>

\* swapchain_resize(images, extent): self.framebuffer.resize(..)
KitSwapchainResize(ok) ==
    /\ alive /\ pc \in {"idle", "failed"}
    /\ kitLast' = [op |-> "swapchain_resize",
                   ret |-> IF ok THEN "Ok" ELSE "Err", submit |-> NoSubmit]
    /\ UNCHANGED <<nonKit, syncVars, frame>>

\* winit_sync(): self.sync.swapchain_sync(self.frame).expect(..); the
\* panic unwinds through the drop of the StarterKit
KitWinitSync ==
    /\ alive /\ pc \in {"idle", "failed"}
    /\ IF SwapchainSyncGet(frame) # None
       THEN /\ kitLast' = [op |-> "winit_sync",
                           ret |-> SwapchainSyncGet(frame)[1],
                           submit |-> NoSubmit]
            /\ UNCHANGED syncVars
       ELSE /\ kitLast' = [op |-> "winit_sync", ret |-> "panic",
                           submit |-> NoSubmit]
            /\ alive' = FALSE
            /\ swapchain_sync' = <<>>
            /\ in_flight_fences' = <<>>
            /\ pc' = "idle" /\ cur' = NoCall /\ result' = "none"
            /\ UNCHANGED <<frames_in_flight, khr_sync, swapchain_img_lut,
                           fenceState, pendingImg, hist, lastRet>>
    /\ UNCHANGED <<nonKit, frame>>

NextKit ==
    \/ \E img \in Images : KitBeginCommandBuffer(img)
    \/ SyncWaitImage
    \/ SyncWaitImageErr
    \/ SyncWaitSlot
    \/ SyncWaitSlotErr
    \/ SyncReset
    \/ SyncResetErr
    \/ \E ok \in BOOLEAN : KitBeginReturn(ok)
    \/ \E fail \in {"none", "end", "submit"} : KitEndCommandBuffer(fail)
    \/ \E ok \in BOOLEAN : KitSwapchainResize(ok)
    \/ KitWinitSync
    \/ \E f \in FenceIds : GpuComplete(f)

SpecKit == InitKit /\ [][NextKit]_vars

\* ------------------------------------------------------- claims, SpecKit
\* a step in which end_command_buffer returns
KitEndStep == pc = "recording" /\ pc' = "idle"

C27_Step ==
    /\ frame' # frame => (KitEndStep /\ kitLast'.ret = "Ok")
    /\ (KitEndStep /\ kitLast'.ret = "Ok") =>
          frame' = (frame + 1) % FRAMES_IN_FLIGHT
    /\ (KitEndStep /\ kitLast'.ret = "Err") => frame' = frame

\* C27: the slot index starts at 0 and stays within 0..FRAMES_IN_FLIGHT-1;
\* only a step in which end_command_buffer returns Ok changes it, to
\* (frame + 1) mod FRAMES_IN_FLIGHT; begin_command_buffer, swapchain_resize,
\* winit_sync and a failing end_command_buffer leave it as it is.
C27_SlotIndexAdvances ==
    /\ frame = 0
    /\ [](frame \in 0..(FRAMES_IN_FLIGHT - 1))
    /\ [][C27_Step]_vars

\* two frames were submitted, the index has wrapped to 0, and a third
\* begin_command_buffer is under way
C27_Witness ==
    /\ frame = 0 /\ kitLast.op = "begin_command_buffer"
    /\ \A f \in 1..FRAMES_IN_FLIGHT : fenceState[f] # "signaled"

C28_Step ==
    KitEndStep =>
       LET sub == kitLast'.submit IN
       /\ kitLast'.ret = "Ok" =>
             /\ sub.fence = lastRet[cur.img]
             /\ sub.fence = SlotFence(frame)
             /\ fenceState'[sub.fence] = "pending"
       /\ sub # NoSubmit =>
             /\ sub.fence = lastRet[cur.img]
             /\ IF SwapchainSyncGet(frame) # None
                THEN /\ sub.wait = <<SwapchainSyncGet(frame)[1][1]>>
                     /\ sub.signal = <<SwapchainSyncGet(frame)[1][2]>>
                ELSE sub.wait = <<>> /\ sub.signal = <<>>
             /\ khr_sync <=> sub.wait # <<>>

\* C28: every submission end_command_buffer makes carries the fence sync
\* returned to the begin_command_buffer of that frame, which is the slot's
\* fence; it waits on the slot's first semaphore and signals its second
\* exactly when swapchain_sync(slot) is Some, and carries no semaphore when
\* it is None.
C28_SubmissionCarriesSync == [][C28_Step]_vars

\* a submission with the second slot's semaphores has been made
C28_Witness ==
    /\ kitLast.op = "end_command_buffer" /\ kitLast.ret = "Ok"
    /\ kitLast.submit = [fence |-> 2, wait |-> <<3>>, signal |-> <<4>>]

\* ---------------------------------------------------- claims, SpecXrFair
RequestExitAnswers ==
    {"request_exit_ok", "request_exit_not_running", "request_exit_err"}

C29_Step ==
    /\ (running /\ ~running') =>
          /\ xrPc' = xrPc /\ xrRet' = xrRet /\ tickCalls' = tickCalls
          /\ bracketsOpen' = bracketsOpen /\ imagesHeld' = imagesHeld
    /\ (xrPc = "top" /\ xrPc' # "top") =>
          /\ ~running <=> lastEvent'.session_call \in RequestExitAnswers
          /\ tickCalls' = <<>>
          /\ lastEvent'.session_call = "request_exit_ok" => xrPc' = "events"
          /\ lastEvent'.session_call = "request_exit_not_running" =>
                xrPc' = "exited" /\ xrRet' = "Ok"
    /\ lastEvent'.session_call \in RequestExitAnswers => xrPc = "top"

\* C29 as stated: after the interrupt the loop asks for the exit at the
\* top of the next tick before it polls or starts a frame, returns Ok when
\* the runtime answers that the session is not running, eventually
\* terminates, and never terminates with a frame bracket open.
C29_NeverMidBracket ==
    /\ [][C29_Step]_vars
    /\ []((~running /\ xrPc = "exited") => bracketsOpen = 0)
    /\ (~running ~> xrPc = "exited")

\* C29 (amended): as above, but it is the return of Ok, the one the
\* shutdown leads to, that never happens with a bracket open, an image held
\* or a frame call made in its tick; a failing or panicking call of the
\* frame path still ends the loop in mid-bracket.
C29_CooperativeShutdown ==
    /\ [][C29_Step]_vars
    /\ []((xrPc = "exited" /\ xrRet = "Ok") =>
            /\ bracketsOpen = 0 /\ imagesHeld = 0 /\ waitsPending = 0
            /\ tickCalls = <<>>)
    /\ (~running ~> xrPc = "exited")

\* interrupted after frames were rendered, the session was stopped and the
\* loop ended on EXITING
C29_Witness ==
    /\ ~running /\ xrPc = "exited" /\ xrRet = "Ok"
    /\ lastEvent.ev = "EXITING"
    /\ ~session_running /\ swapchain # None

\* --------------------------------------------------- claims, SpecLoops
\* calls of Swapchain::queue_present in the VR tick, by their first call
XrPresentCalls == CallIndex("release_image") \cup CallIndex("release_failed")

\* what both readings of C30 share: present only follows the frame callback
\* of its tick, at most once, with the index (desktop) or the held image
\* (VR) acquired in that tick; a tick whose acquisition failed or gave no
\* image calls neither the frame callback nor present.
C30_Common ==
    /\ loopPc \in {"app_frame", "present"} =>
          lastFrame.ret = "Ok" /\ lastFrame.idx # NoImage
    /\ lastFrame.ret = "Err" => loopPc = "exited"
    /\ Cardinality(CallIndex("app_frame")) <= 1
    /\ Cardinality(XrPresentCalls) <= 1
    /\ \A j \in XrPresentCalls : \E i \in CallIndex("app_frame") : i < j
    /\ xrPc \in {"app_frame", "present"} =>
          /\ xrFrameRet.ret = "Ok" /\ xrFrameRet.idx # None
          /\ imagesHeld = 1
    /\ (xrFrameRet.ret # "none" /\ xrFrameRet.idx = None) =>
          /\ xrPc \in {"top", "exited"}
          /\ CallIndex("app_frame") = {} /\ XrPresentCalls = {}

C30_CommonStep ==
    /\ (loopPc' = "present" /\ loopPc # "present") => loopPc = "app_frame"
    /\ (loopPc = "present" /\ loopPc' # "present") =>
          /\ loopPc' = "events"
          /\ lastPresent'.idx = lastFrame.idx
    /\ (xrPc' = "present" /\ xrPc # "present") => xrPc = "app_frame"
    /\ (xrPc = "present" /\ xrPc' # "present") =>
          Cardinality(XrPresentCalls') = 1

\* C30 as stated: in every tick in which the frame callback runs present is
\* called exactly once afterwards.
C30_PresentOncePerFrame ==
    /\ []C30_Common
    /\ [][C30_CommonStep]_vars
    /\ [][(loopPc = "app_frame" /\ loopPc' # "app_frame") =>
            loopPc' = "present"]_vars
    /\ []((xrPc \in {"top", "exited"} /\ CallIndex("app_frame") # {}) =>
            Cardinality(XrPresentCalls) = 1)

\* C30 (amended): in every tick in which the frame callback returns Ok
\* with the loop's platform return, present is called exactly once
\* afterwards; a frame callback that fails ends the loop without present.
C30_PresentOncePerOkFrame ==
    /\ []C30_Common
    /\ [][C30_CommonStep]_vars
    /\ [][(loopPc = "app_frame" /\ loopPc' # "app_frame") =>
            loopPc' \in {"present", "exited"}]_vars
    /\ []((xrPc = "top" /\ CallIndex("app_frame") # {}) =>
            Cardinality(XrPresentCalls) = 1)
    /\ []((xrPc = "exited" /\ CallIndex("app_frame") # {}
            /\ XrPresentCalls = {}) => xrRet = "Err")

\* a desktop tick has presented the second image, or a VR tick has run the
\* frame callback and presented
C30_Witness ==
    \/ loopPc = "events" /\ lastPresent.idx = 1
    \/ /\ xrPc = "top"
       /\ CallIndex("app_frame") # {} /\ CallIndex("end_layers") # {}

\* ----------------------------- Synchronization with a submitting caller
\* the caller hands every fence sync returned to a queue_submit that
\* succeeds before it calls sync again
NextSyncSubmitted ==
    \/ \E img \in Images, slot \in 0..(frames_in_flight - 1) : SyncCall(img, slot)
    \/ SyncWaitImage
    \/ SyncWaitImageErr
    \/ SyncWaitSlot
    \/ SyncWaitSlotErr
    \/ SyncReset
    \/ SyncResetErr
    \/ QueueSubmit
    \/ \E f \in FenceIds : GpuComplete(f)

\* the device completes every submission, a wait whose fence is signaled
\* returns, and the call goes on from there
SpecSyncSubmitted ==
    /\ InitSync /\ [][NextSyncSubmitted]_vars
    /\ \A f \in FenceIds : WF_vars(GpuComplete(f))
    /\ WF_vars(SyncWaitImage)
    /\ WF_vars(SyncWaitSlot)
    /\ WF_vars(SyncReset)

\* the fence the call in progress is waiting on, if any
WaitingOn ==
    IF pc = "wait_img" /\ LutGet(cur.img) # NoFence THEN {LutGet(cur.img)}
    ELSE IF pc = "wait_slot" THEN {SlotFence(cur.slot)}
    ELSE {}

SyncInProgress == pc \in {"wait_img", "wait_slot", "reset"}

\* C31: with a caller that submits every returned fence before its next
\* sync call and a device that completes every submission, sync never
\* waits on a fence that is reset and not submitted, a fence is unsignaled
\* only while it is with the caller, and every call of sync returns, for
\* every sequence of images and slots, the image's recorded fence being the
\* slot's own included, the table never being cleared.
C31_SyncTerminates ==
    /\ [](\A f \in WaitingOn : fenceState[f] # "unsignaled")
    /\ [](\A f \in FenceIds : fenceState[f] = "unsignaled" =>
                pc = "returned" /\ f = SlotFence(cur.slot))
    /\ (SyncInProgress ~> pc \in {"returned", "failed"})

\* a call has returned that waited twice on the same fence: the image's
\* recorded fence was the slot's own, pending when the call was made
C31_Witness ==
    /\ pc = "returned"
    /\ Len(cur.waited) = 2 /\ cur.waited[1] = cur.waited[2]
    /\ \E i \in Images : i # cur.img /\ LutGet(i) # NoFence

\* ------------------------------------------- claims, SpecWinit (rebuild)
\* C32: a swapchain is destroyed only after the GPU has finished the frames
\* submitted into its images and after the views and framebuffers built
\* from them are gone: no destroyed swapchain has a frame in flight, and the
\* application's framebuffer entries are never those of a destroyed
\* swapchain.
C32_OldSwapchainDestroyedLast ==
    /\ inFlight \cap destroyed = {}
    /\ appImages \notin destroyed

\* ======================== the desktop tick of a StarterKit application
\* begin_loop with an application whose winit_sync, frame and
\* swapchain_resize are the StarterKit's (trivial.rs): Platform::Winit,
\* so khr_sync is set
InitDesktop ==
    /\ frames_in_flight = FRAMES_IN_FLIGHT
    /\ khr_sync = TRUE
    /\ in_flight_fences = NewFences(frames_in_flight)
    /\ swapchain_sync = NewSwapchainSync(frames_in_flight, khr_sync)
    /\ swapchain_img_lut = [i \in Images |-> NoFence]
    /\ alive = TRUE
    /\ fenceState = NewFenceState
    /\ pendingImg = [f \in FenceIds |-> NoImage]
    /\ pc = "idle" /\ cur = NoCall /\ result = "none" /\ hist = "fresh"
    /\ lastRet = [i \in Images |-> NoFence]
    /\ frame = 0 /\ kitLast = NoKitCall
    /\ tick = [NoTick EXCEPT !.pc = "events"]
    /\ WinitIdle
    /\ FbIdle
    /\ XrIdle
    /\ QueryIdle
    /\ UboIdle

\* variant: the loop takes the pair of the slot after the current one
TickSync_NextSlot == SwapchainSyncGet((frame + 1) % FRAMES_IN_FLIGHT)[1]

\* `app.winit_sync()` as the loop sees it: the pair of the current slot
TickSync == SwapchainSyncGet(frame)[1]

\* RedrawRequested: `let (image_available, render_finished) =
\* app.winit_sync()`
DeskWinitSync ==
    /\ tick.pc = "events" /\ pc = "idle"
    /\ tick' = [pc |-> "acquire", slot |-> frame,
                image_available |-> TickSync[1],
                render_finished |-> TickSync[2],
                idx |-> NoImage, presented |-> NoSemaphore]
    /\ kitLast' = [op |-> "winit_sync", ret |-> TickSync, submit |-> NoSubmit]
    /\ UNCHANGED <<nonDesk, syncVars, frame>>

\* `res(swapchain.frame(image_available))`: the acquire signals
\* image_available and yields an index, or fails and the process exits
DeskAcquire(idx, ok) ==
    /\ tick.pc = "acquire"
    /\ tick' = IF ok THEN [tick EXCEPT !.pc = "app_frame", !.idx = idx]
               ELSE [tick EXCEPT !.pc = "exited"]
    /\ UNCHANGED <<nonDesk, syncVars, kitVars>>

\* app.frame enters begin_command_buffer with the acquired index
DeskBeginCommandBuffer ==
    /\ tick.pc = "app_frame" /\ pc = "idle" /\ kitLast.op = "winit_sync"
    /\ KitBeginCommandBuffer(tick.idx)

\* res(app.frame(..)) on an error of begin_command_buffer or
\* end_command_buffer: the process exits
DeskFrameFailed ==
    /\ tick.pc = "app_frame"
    /\ \/ pc = "failed"
       \/ pc = "idle" /\ kitLast.op = "end_command_buffer" /\ kitLast.ret = "Err"
    /\ tick' = [tick EXCEPT !.pc = "exited"]
    /\ UNCHANGED <<nonDesk, syncVars, kitVars>>

\* `res(swapchain.queue_present(swapchain_index, render_finished))` after
\* app.frame returned Ok
DeskPresent ==
    /\ tick.pc = "app_frame" /\ pc = "idle"
    /\ kitLast.op = "end_command_buffer" /\ kitLast.ret = "Ok"
    /\ tick' = [tick EXCEPT !.pc = "events", !.presented = tick.render_finished]
    /\ UNCHANGED <<nonDesk, syncVars, kitVars>>

NextDesktop ==
    \/ DeskWinitSync
    \/ \E idx \in Images, ok \in BOOLEAN : DeskAcquire(idx, ok)
    \/ DeskBeginCommandBuffer
    \/ tick.pc = "app_frame" /\ SyncWaitImage
    \/ tick.pc = "app_frame" /\ SyncWaitImageErr
    \/ tick.pc = "app_frame" /\ SyncWaitSlot
    \/ tick.pc = "app_frame" /\ SyncWaitSlotErr
    \/ tick.pc = "app_frame" /\ SyncReset
    \/ tick.pc = "app_frame" /\ SyncResetErr
    \/ \E ok \in BOOLEAN : tick.pc = "app_frame" /\ KitBeginReturn(ok)
    \/ \E fail \in {"none", "end", "submit"} :
          tick.pc = "app_frame" /\ KitEndCommandBuffer(fail)
    \/ DeskFrameFailed
    \/ DeskPresent
    \/ \E f \in FenceIds : tick.pc # "exited" /\ GpuComplete(f)

SpecDesktop == InitDesktop /\ [][NextDesktop]_vars

\* the submission of a slot waits on the slot's image_available semaphore
\* and signals the slot's fence: its wait is pending while that fence is
WaitPending(sem) ==
    \E slot \in 0..(FRAMES_IN_FLIGHT - 1) :
        /\ SwapchainSyncGet(slot)[1][1] = sem
        /\ fenceState[SlotFence(slot)] = "pending"

\* C33: in the desktop loop the image-acquired semaphore given to an acquire
\* has no pending wait: the submission made with the same slot N frames
\* earlier has completed on the GPU when the acquire is issued
C33_AcquireSemaphoreFree ==
    [][(tick.pc = "acquire" /\ tick'.pc = "app_frame")
          => ~WaitPending(tick.image_available)]_vars

\* C34: in a desktop tick the pair taken from winit_sync is the pair of the
\* slot that the frame callback syncs and submits with: the submission waits
\* on the semaphore given to acquire and signals the one present waits on,
\* although the slot index has advanced before present
C34_TickPairMatchesSlot ==
    /\ (tick.pc = "app_frame" /\ pc # "idle") => cur.slot = tick.slot
    /\ (tick.pc = "app_frame" /\ kitLast.op = "end_command_buffer"
            /\ kitLast.ret = "Ok")
          => /\ kitLast.submit.wait = <<tick.image_available>>
             /\ kitLast.submit.signal = <<tick.render_finished>>
             /\ kitLast.submit.fence = SlotFence(tick.slot)
             /\ frame = NextSlot(tick.slot)
    /\ (tick.pc = "events" /\ tick.presented # NoSemaphore)
          => /\ tick.presented = kitLast.submit.signal[1]
             /\ tick.presented = SwapchainSyncGet(tick.slot)[1][2]
             /\ frame = NextSlot(tick.slot)

C34_Witness ==
    /\ tick.pc = "events" /\ tick.presented # NoSemaphore
    /\ tick.slot = 1 /\ frame = 0
    /\ kitLast.submit.wait = <<tick.image_available>>

\* the last resize call got past its queue_wait_idle and returned an error
ResizeFailedAfterIdle ==
    /\ lastResize.ret = "Err"
    /\ lastResize.ops # <<>> /\ lastResize.ops[1][1] = "queue_wait_idle"

\* C35: after a resize that returned an error past its idle wait the manager
\* has no Internals, the views and framebuffers it held are destroyed, and
\* frame() and extent() panic; a resize whose idle wait fails changes nothing
C35_FailedResizeUninitializes ==
    /\ [](ResizeFailedAfterIdle =>
            /\ internals = None
            /\ \A o \in lastResize.old :
                  ~\E x \in live : x[1] = o[1] /\ x[2] = o[2]
            /\ lastQuery.op \in {"frame", "extent"} =>
                  lastQuery.ret[1] = "panic")
    /\ [][(/\ resizeCount' = resizeCount + 1
            /\ lastResize'.ops = <<Op("queue_wait_idle_failed", 0, 0)>>)
           => /\ lastResize'.ret = "Err"
              /\ internals' = internals /\ live' = live]_vars

C35_Witness ==
    /\ ResizeFailedAfterIdle
    /\ lastResize.old # {}
    /\ lastQuery.op = "extent" /\ lastQuery.ret[1] = "panic"
    /\ lastResize.okExtent # <<0, 0>>

\* C36: in both loops the frame callback runs only after swapchain_resize
\* has been called (and has returned Ok) at least once: the desktop loop
\* calls it before the event loop, the first rendered VR frame carries a
\* resize
C36_ResizeBeforeFirstFrame ==
    /\ WinitInAppFrame => appImages # 0
    /\ XrInAppFrame => xrAppImages # None

C36_Witness ==
    /\ loopPc = "app_frame" /\ lastFrame.resize = None
    /\ appImages = 1 /\ destroyed = {}

\* the entries of one kind in the log of a frame call
LogOps(log, kind) == SelectSeq(log, LAMBDA o : o[1] = kind)

\* a step that is a call of Swapchain::frame by the loop
SwapchainFrameStep == loopPc = "redraw" /\ loopPc' # "redraw"

\* C37: when create_swapchain fails in a rebuild, frame returns that error,
\* the controller keeps the old handle, nothing is destroyed and no second
\* acquire is made; a handle is destroyed only after the creation of its
\* replacement succeeded, and only once
C37_FailedRebuildKeepsOld ==
    [][SwapchainFrameStep =>
        LET log == lastFrame'.log
            creates == LogOps(log, "create")
            destroys == LogOps(log, "destroy")
        IN  /\ (creates # <<>> /\ creates[1][3] # "ok") =>
                  /\ lastFrame'.ret = "Err"
                  /\ lastFrame'.err = creates[1][3]
                  /\ inner' = inner /\ inner \notin destroyed'
                  /\ destroyed' = destroyed
                  /\ Len(LogOps(log, "acquire")) = 1
                  /\ log[Len(log)][1] = "create"
            /\ destroys # <<>> =>
                  /\ Len(destroys) = 1
                  /\ destroys[1][2] = inner /\ inner \notin destroyed
                  /\ inner' # inner
                  /\ \E i, j \in 1..Len(log) :
                        /\ i < j /\ log[j][1] = "destroy"
                        /\ log[i] = <<"create", inner', "ok">>
            /\ destroyed' # destroyed =>
                  /\ destroys # <<>>
                  /\ destroyed' = destroyed \cup {inner}]_vars

C37_Witness ==
    /\ loopPc = "exited" /\ lastFrame.ret = "Err"
    /\ LogOps(lastFrame.log, "create") # <<>> /\ lastFrame.err = "images"
    /\ inner = 2 /\ destroyed = {1}

\* ===================== Synchronization with its swapchain_sync accessor
\* a call of swapchain_sync(frame) between calls of sync (`&self`)
SwapchainSyncCall(slot) ==
    /\ alive /\ pc \in {"idle", "returned", "failed"}
    /\ syncQuery' = [called |-> TRUE, slot |-> slot,
                     ret |-> SwapchainSyncGet(slot)]
    /\ UNCHANGED <<syncVars, nonQuery>>

NextSyncApi ==
    \/ NextSync
    \/ \E slot \in 0..frames_in_flight : SwapchainSyncCall(slot)

SpecSyncApi == InitSync /\ [][NextSyncApi]_vars

\* a step of a sync call, from its entry to its return
SyncStep == pc' = "wait_img" \/ pc \in {"wait_img", "wait_slot", "reset"}

\* C38: a sync that returns Ok has changed the table at image_index only,
\* to the slot's fence; no step of sync changes the slot fences or the
\* semaphore pairs; every table value is one of the fences made by new;
\* swapchain_sync changes nothing of the Synchronization
C38_SyncTouchesOneEntry ==
    /\ [](pc = "returned" =>
            swapchain_img_lut = [cur.lut0 EXCEPT ![cur.img] = SlotFence(cur.slot)])
    /\ [](\A i \in Images :
            LutGet(i) # NoFence => LutGet(i) \in Range(NewFences(frames_in_flight)))
    /\ [][SyncStep =>
            /\ in_flight_fences' = in_flight_fences
            /\ swapchain_sync' = swapchain_sync
            /\ pc' # "returned" => swapchain_img_lut' = swapchain_img_lut]_vars
    /\ [][syncQuery' # syncQuery => UNCHANGED syncVars]_vars

C38_Witness ==
    /\ pc = "returned"
    /\ cur.lut0[cur.img] \notin {NoFence, SlotFence(cur.slot)}
    /\ \E i \in Images : i # cur.img /\ LutGet(i) # NoFence
    /\ syncQuery.called /\ syncQuery.slot = cur.slot
    /\ syncQuery.ret # None

\* ============================================ memory.rs, frame_data_ubo.rs
\* u64 scaled down to WordBits bits
WordBits == 5
MaxUboFrames == 3

RECURSIVE Pow2(_)
Pow2(n) == IF n = 0 THEN 1 ELSE 2 * Pow2(n - 1)

WordMod == Pow2(WordBits)
Words == 0..(WordMod - 1)

\* wrapping +, - and * of the unsigned word (release build)
WrapAdd(a, b) == (a + b) % WordMod
WrapSub(a, b) == (a - b + WordMod) % WordMod
WrapMul(a, b) == (a * b) % WordMod

RECURSIVE BitAndN(_, _, _)
\* `&` on the low n bits
BitAndN(a, b, n) ==
    IF n = 0 THEN 0
    ELSE (a % 2) * (b % 2) + 2 * BitAndN(a \div 2, b \div 2, n - 1)

BitAnd(a, b) == BitAndN(a, b, WordBits)

\* `!` of the unsigned word
BitNot(a) == WordMod - 1 - a

\* variant: the size is raised by a whole alignment before masking
pad_size_NoMinusOne(align, size) ==
    IF align > 0
    THEN BitAnd(WrapAdd(size, align), BitNot(WrapSub(align, 1)))
    ELSE size

\* pad_size(min_align, size):
\* `(size + min_align - 1) & !(min_align - 1)`, or size when min_align is 0
pad_size(align, size) ==
    IF align > 0
    THEN BitAnd(WrapSub(WrapAdd(size, align), 1), BitNot(WrapSub(align, 1)))
    ELSE size

\* an arithmetic step of pad_size or of FrameDataUbo::new leaves the word:
\* a panic in a build with overflow checks, a wrapped value otherwise
PadOverflows(align, size) == align > 0 /\ size + align >= WordMod
TotalOverflows(padded, frames) == padded * frames >= WordMod

\* FrameDataUbo::offset(frame)
UboOffset(f) == WrapMul(padded_size, f)

\* descriptor_buffer_info(frame): offset(frame) and range padded_size
DescriptorBufferInfo(f) ==
    [offset |-> UboOffset(f), range |-> padded_size]

\* the device reports an alignment, T has a size; no FrameDataUbo yet
InitUbo ==
    /\ min_align \in Words
    /\ elem_size \in Words
    /\ padded_size = 0 /\ ubo_frames = 0
    /\ uboPc = "start" /\ lastUpload = NoUpload
    /\ SyncIdle
    /\ WinitIdle
    /\ FbIdle
    /\ XrIdle
    /\ KitIdle
    /\ DeskIdle
    /\ QueryIdle

\* FrameDataUbo::new(core, frames): checks says whether the build panics on
\* overflow, ok whether ManagedBuffer::new succeeds
UboNew(frames, checks, ok) ==
    /\ uboPc = "start"
    /\ LET padded == pad_size(min_align, elem_size) IN
       IF checks /\ (PadOverflows(min_align, elem_size)
                      \/ TotalOverflows(padded, frames))
       THEN /\ uboPc' = "panicked"
            /\ UNCHANGED <<padded_size, ubo_frames>>
       ELSE IF ~ok
       THEN /\ uboPc' = "failed"
            /\ UNCHANGED <<padded_size, ubo_frames>>
       ELSE /\ uboPc' = "ready"
            /\ padded_size' = padded
            /\ ubo_frames' = frames
    /\ UNCHANGED <<nonUbo, min_align, elem_size, lastUpload>>

\* upload(frame, data) with frame < frames (the debug_assert of offset):
\* write_bytes(offset(frame), the bytes of one T)
UboUpload(f) ==
    /\ uboPc = "ready" /\ f < ubo_frames
    /\ lastUpload' = [frame |-> f, offset |-> UboOffset(f), len |-> elem_size]
    /\ UNCHANGED <<nonUbo, min_align, elem_size, padded_size, ubo_frames,
                   uboPc>>

NextUbo ==
    \/ \E frames \in 0..MaxUboFrames, checks \in BOOLEAN, ok \in BOOLEAN :
          UboNew(frames, checks, ok)
    \/ \E f \in 0..(MaxUboFrames - 1) : UboUpload(f)

SpecUbo == InitUbo /\ [][NextUbo]_vars

\* --------------------------------------------------------- claims, SpecUbo
IsPowerOfTwo(n) == \E k \in 0..(WordBits - 1) : n = Pow2(k)

\* the bytes of a region of the buffer
Bytes(offset, len) == offset..(offset + len - 1)

\* the region of the buffer the descriptor of a frame covers
UboRegion(f) ==
    Bytes(DescriptorBufferInfo(f).offset, DescriptorBufferInfo(f).range)

\* C39: for a power-of-two alignment (and no overflow) pad_size is the
\* smallest multiple of the alignment that is >= size, and for alignment 0
\* it is size; the per-frame regions at padded_size * frame of length
\* padded_size are pairwise disjoint, each holds one element, and an upload
\* stays inside the region of its frame
C39_PadSizeAndRegions ==
    (/\ uboPc = "ready"
     /\ min_align = 0 \/ IsPowerOfTwo(min_align)
     /\ ~PadOverflows(min_align, elem_size)
     /\ ~TotalOverflows(padded_size, ubo_frames))
    => /\ padded_size = pad_size(min_align, elem_size)
       /\ min_align = 0 => padded_size = elem_size
       /\ min_align > 0 =>
             /\ padded_size % min_align = 0
             /\ padded_size >= elem_size
             /\ \A m \in Words :
                   (m % min_align = 0 /\ m >= elem_size) => padded_size <= m
       /\ \A f1, f2 \in 0..(ubo_frames - 1) :
             f1 # f2 => UboRegion(f1) \cap UboRegion(f2) = {}
       /\ \A f \in 0..(ubo_frames - 1) :
             /\ DescriptorBufferInfo(f).offset = padded_size * f
             /\ elem_size <= DescriptorBufferInfo(f).range
       /\ Bytes(lastUpload.offset, lastUpload.len) \subseteq
             UboRegion(lastUpload.frame)

C39_Witness ==
    /\ uboPc = "ready" /\ min_align = 8 /\ elem_size = 5
    /\ padded_size = 8 /\ ubo_frames = 3
    /\ lastUpload = [frame |-> 2, offset |-> 16, len |-> 5]

====
